---------------------------- MODULE Spec2Model ----------------------------
(***************************************************************************)
(* A model of the log inspection tool's core: the content store            *)
(* (useContentManager), the chunked search scheduler (useStreamingSearch), *)
(* the search controller (useSearchController) and the file ingestion      *)
(* client and worker (useFileProcessor, FileProcessor).                    *)
(*                                                                         *)
(* A text is a sequence of one-character strings, so that split, join,     *)
(* trim and indexOf are computed on characters as the code computes them.  *)
(* Each component has its own variables and its own specification; a       *)
(* specification leaves the other components' variables as constructed.    *)
(***************************************************************************)
EXTENDS Integers, Sequences, FiniteSets, TLC

\* ------------------------------------------------------------------------
\* Bounds of the model
\* ------------------------------------------------------------------------

\* Longest text handed to the content store.
MaxTextLen == 5

\* Largest maxLines argument of useContentManager / updateMaxLines.
MaxLinesArg == 2

\* ------------------------------------------------------------------------
\* Texts
\* ------------------------------------------------------------------------

NL == "\n"

EmptyText == << >>

\* All sequences over alphabet of length at most n.
TextsOver(alphabet, n) == UNION {[1..k -> alphabet] : k \in 0..n}

\* String.prototype.split('\n'): the pieces between line feeds; a text without
\* a line feed (the empty text included) is one line.
RECURSIVE Split(_)
Split(s) ==
    IF \A k \in 1..Len(s) : s[k] # NL
    THEN <<s>>
    ELSE LET k == CHOOSE j \in 1..Len(s) :
                      s[j] = NL /\ \A m \in 1..(j - 1) : s[m] # NL
         IN <<SubSeq(s, 1, k - 1)>> \o Split(SubSeq(s, k + 1, Len(s)))

\* Array.prototype.join('\n').
RECURSIVE Join(_)
Join(ls) ==
    IF Len(ls) = 0 THEN EmptyText
    ELSE IF Len(ls) = 1 THEN ls[1]
    ELSE ls[1] \o <<NL>> \o Join(Tail(ls))

\* Array.prototype.slice(0, n).
SliceTo(ls, n) == SubSeq(ls, 1, IF n < Len(ls) THEN n ELSE Len(ls))

\* new Blob([text]).size for the one-byte characters of the model.
BlobSize(text) == Len(text)

\* ------------------------------------------------------------------------
\* ContentStore: useContentManager
\* ------------------------------------------------------------------------

\* The thresholds of the content store, scaled to the model's text sizes:
\* MAX_SIZE_BYTES stands for MAX_SIZE_MB = 50 megabytes, LARGE_LINES for
\* 10000 lines and LARGE_SIZE_BYTES for 5 megabytes.
MAX_SIZE_BYTES == 4

LARGE_LINES == 2

LARGE_SIZE_BYTES == 3

VARIABLES
    cmState,         \* the hook's state: content, lineCount, sizeBytes, isLarge,
                     \* truncated, maxLines
    fullContentRef,  \* fullContentRef.current
    maxLines,        \* the maxLines argument of useContentManager
    cmLast,          \* the operation that ran last
    cmLastSet        \* history: the text of the caller's most recent setContent,
                     \* empty after clearContent

contentVars == <<cmState, fullContentRef, maxLines, cmLast, cmLastSet>>

ContentTexts == TextsOver({"a", NL}, MaxTextLen)

analyzeContent(content) ==
    LET lines == Split(content)
        sizeBytes == BlobSize(content)
    IN [lineCount |-> Len(lines),
        sizeBytes |-> sizeBytes,
        isLarge |-> Len(lines) > LARGE_LINES \/ sizeBytes > LARGE_SIZE_BYTES,
        needsTruncation |-> Len(lines) > maxLines \/ sizeBytes > MAX_SIZE_BYTES]

\* A cut by characters instead of by lines.
TruncateByChars(newContent, n) ==
    SubSeq(newContent, 1, IF n < Len(newContent) THEN n ELSE Len(newContent))

\* lines.slice(0, maxLines).join('\n')
TruncateDisplay(newContent, n) == Join(SliceTo(Split(newContent), n))

\* The state setContent(newContent) leaves.
StateAfterSetContent(newContent) ==
    LET analysis == analyzeContent(newContent)
    IN [content |-> IF analysis.needsTruncation
                    THEN TruncateDisplay(newContent, maxLines)
                    ELSE newContent,
        lineCount |-> analysis.lineCount,
        sizeBytes |-> analysis.sizeBytes,
        isLarge |-> analysis.isLarge,
        truncated |-> analysis.needsTruncation,
        maxLines |-> maxLines]

\* setContent stores the display text as the authoritative one.
RefKeepsDisplay(newContent) == StateAfterSetContent(newContent).content

\* fullContentRef.current = newContent
RefAfterSetContent(newContent) == newContent

EmptyContentState ==
    [content |-> EmptyText, lineCount |-> 0, sizeBytes |-> 0,
     isLarge |-> FALSE, truncated |-> FALSE, maxLines |-> maxLines]

\* The store after useContentManager(n).
ContentConstructed(n) ==
    /\ maxLines = n
    /\ cmState = [content |-> EmptyText, lineCount |-> 0, sizeBytes |-> 0,
                  isLarge |-> FALSE, truncated |-> FALSE, maxLines |-> n]
    /\ fullContentRef = EmptyText
    /\ cmLast = "init"
    /\ cmLastSet = EmptyText

ContentInit == \E n \in 1..MaxLinesArg : ContentConstructed(n)

ContentIdle == ContentConstructed(1)

setContent(newContent) ==
    /\ fullContentRef' = RefAfterSetContent(newContent)
    /\ cmState' = StateAfterSetContent(newContent)
    /\ cmLast' = "setContent"
    /\ cmLastSet' = newContent
    /\ UNCHANGED maxLines

\* loadMore takes effect only on a truncated view, and then calls
\* setContent(fullContentRef.current).
loadMore ==
    /\ IF cmState.truncated
       THEN /\ fullContentRef' = RefAfterSetContent(fullContentRef)
            /\ cmState' = StateAfterSetContent(fullContentRef)
            /\ cmLast' = "loadMore"
       ELSE /\ UNCHANGED <<fullContentRef, cmState>>
            /\ cmLast' = "loadMoreNotTruncated"
    /\ UNCHANGED <<maxLines, cmLastSet>>

clearContent ==
    /\ cmState' = EmptyContentState
    /\ fullContentRef' = EmptyText
    /\ cmLast' = "clearContent"
    /\ cmLastSet' = EmptyText
    /\ UNCHANGED maxLines

\* With content, the maxLines update is followed by setContent(currentContent),
\* whose setState replaces the whole state, maxLines included.
updateMaxLines(newMaxLines) ==
    /\ IF fullContentRef # EmptyText
       THEN /\ fullContentRef' = RefAfterSetContent(fullContentRef)
            /\ cmState' = StateAfterSetContent(fullContentRef)
       ELSE /\ cmState' = [cmState EXCEPT !.maxLines = newMaxLines]
            /\ UNCHANGED fullContentRef
    /\ cmLast' = "updateMaxLines"
    /\ UNCHANGED <<maxLines, cmLastSet>>

getFullContent == fullContentRef

\* ------------------------------------------------------------------------
\* MatchEngine: the per-line part of useStreamingSearch.searchInChunks
\* ------------------------------------------------------------------------

\* Most patterns in one pattern list of the match specification.
MaxPatterns == 3

MinOf(S) == CHOOSE x \in S : \A y \in S : x <= y

\* The capital letter I with dot above, U+0130, and the combining dot above,
\* U+0307: toLowerCase() turns the one code unit U+0130 into the two code
\* units "i" U+0307.
DOTTED_I == "I"

COMBINING_DOT == "."

\* The lower case of a character that has a one-unit lower case; it is also the
\* class in which the 'i' flag of a regular expression compares characters.
ToLowerChar(c) ==
    IF c = "A" THEN "a" ELSE IF c = "B" THEN "b"
    ELSE IF c = "G" THEN "g" ELSE IF c = "Z" THEN "z"
    ELSE IF c = "T" THEN "t" ELSE IF c = "R" THEN "r" ELSE c

\* String.prototype.toLowerCase()
RECURSIVE ToLower(_)
ToLower(s) ==
    IF Len(s) = 0 THEN << >>
    ELSE (IF s[1] = DOTTED_I THEN <<"i", COMBINING_DOT>> ELSE <<ToLowerChar(s[1])>>)
            \o ToLower(Tail(s))

\* s.indexOf(pat, from) on 0-based positions: the first occurrence at or after
\* from (clamped to the length of s), -1 when there is none.
MinOrMinusOne(hits) == IF hits = {} THEN -1 ELSE MinOf(hits)

IndexOf(s, pat, from) ==
    MinOrMinusOne({k \in (IF from > Len(s) THEN Len(s) ELSE from)..(Len(s) - Len(pat)) :
                      SubSeq(s, k + 1, k + Len(pat)) = pat})

Span(p, start, end) ==
    [pattern |-> p.pattern, color |-> p.color, start |-> start, end |-> end]

\* The literal branch's while loop. With an empty pattern indexOf returns
\* startIndex itself and startIndex += 0 never advances: the loop never ends.
RECURSIVE LiteralLoop(_, _, _, _)
LiteralFound(line, p, k, acc) ==
    IF k = -1 THEN [hang |-> FALSE, threw |-> FALSE, spans |-> acc]
    ELSE IF Len(p.pattern) = 0
         THEN [hang |-> TRUE, threw |-> FALSE, spans |-> acc]
         ELSE LiteralLoop(line, p, k + Len(p.pattern),
                          Append(acc, Span(p, k, k + Len(p.pattern))))

LiteralLoop(line, p, startIndex, acc) ==
    LiteralFound(line, p, IndexOf(ToLower(line), ToLower(p.pattern), startIndex), acc)

\* The regular expressions of the model: a sequence of literal characters, or
\* one character followed by "*". A text with "(" or a leading "*" does not
\* compile (new RegExp throws).
IsStar(t) == Len(t) = 2 /\ t[2] = "*" /\ t[1] \notin {"*", "("}

RegexCompiles(t) == IsStar(t) \/ \A k \in 1..Len(t) : t[k] \notin {"*", "("}

\* The length of the match of regex t at 0-based position k of line, -1 when
\* there is none; flags 'gi'.
MaxOf(S) == CHOOSE x \in S : \A y \in S : y <= x

RegexMatchAt(t, line, k) ==
    IF IsStar(t)
    THEN MaxOf({n \in 0..(Len(line) - k) :
                   \A j \in 1..n : ToLowerChar(line[k + j]) = ToLowerChar(t[1])})
    ELSE IF k + Len(t) <= Len(line)
            /\ \A j \in 1..Len(t) : ToLowerChar(line[k + j]) = ToLowerChar(t[j])
         THEN Len(t)
         ELSE -1

\* regex.exec(line) with lastIndex: the leftmost match at or after lastIndex.
RegexMatch(t, line, index) ==
    IF index = -1 THEN [found |-> FALSE, index |-> 0, length |-> 0]
    ELSE [found |-> TRUE, index |-> index, length |-> RegexMatchAt(t, line, index)]

RegexExec(t, line, lastIndex) ==
    RegexMatch(t, line,
               MinOrMinusOne({k \in lastIndex..Len(line) : RegexMatchAt(t, line, k) >= 0}))

\* The regex branch's while loop. exec leaves lastIndex at the end of the
\* match; the code never advances it after an empty match, so a match that
\* leaves lastIndex where it was is found again for ever.
RECURSIVE RegexLoop(_, _, _, _)
RegexFound(line, p, lastIndex, acc, m) ==
    IF ~m.found THEN [hang |-> FALSE, threw |-> FALSE, spans |-> acc]
    ELSE IF m.index + m.length = lastIndex
         THEN [hang |-> TRUE, threw |-> FALSE,
               spans |-> Append(acc, Span(p, m.index, m.index + m.length))]
         ELSE RegexLoop(line, p, m.index + m.length,
                        Append(acc, Span(p, m.index, m.index + m.length)))

RegexLoop(line, p, lastIndex, acc) ==
    RegexFound(line, p, lastIndex, acc, RegexExec(p.pattern, line, lastIndex))

\* One pattern on one line: the body of the first pass's try block.
FindMatches(line, p) ==
    IF p.isRegex
    THEN IF RegexCompiles(p.pattern)
         THEN RegexLoop(line, p, 0, << >>)
         ELSE [hang |-> FALSE, threw |-> TRUE, spans |-> << >>]
    ELSE LiteralLoop(line, p, 0, << >>)

\* patternMatches.set(id, value)
MapSet(pm, id, value) ==
    [k \in (DOMAIN pm) \cup {id} |-> IF k = id THEN value ELSE pm[k]]

\* patternMatches.get(id) || false
MapGet(pm, id) == IF id \in DOMAIN pm THEN pm[id] ELSE FALSE

EmptyMap == [k \in {} |-> FALSE]

\* A pattern whose regular expression does not compile counts as matching.
AfterPatternThrowMatches(acc, id, r) ==
    [hang |-> r.hang,
     matches |-> acc.matches \o r.spans,
     patternMatches |-> MapSet(acc.patternMatches, id, r.threw \/ Len(r.spans) > 0)]

\* First pass over the enabled patterns, in order: the spans pushed to matches
\* and the patternMatches map, keyed by pattern id.
\* The accumulators after one pattern: r is what its match loop produced.
AfterPattern(acc, id, r) ==
    [hang |-> r.hang,
     matches |-> acc.matches \o r.spans,
     patternMatches |-> MapSet(acc.patternMatches, id, ~r.threw /\ Len(r.spans) > 0)]

RECURSIVE FirstPass(_, _, _, _)
FirstPass(line, patterns, i, acc) ==
    IF i > Len(patterns) \/ acc.hang THEN acc
    ELSE FirstPass(line, patterns, i + 1,
                   AfterPattern(acc, patterns[i].id, FindMatches(line, patterns[i])))

\* The chain evaluated from the right: later operators bind tighter.
RECURSIVE RightChain(_, _, _)
RightChain(patterns, patternMatches, i) ==
    IF i = Len(patterns) THEN MapGet(patternMatches, patterns[i].id)
    ELSE IF patterns[i + 1].logicalOperator = "OR"
         THEN MapGet(patternMatches, patterns[i].id)
                 \/ RightChain(patterns, patternMatches, i + 1)
         ELSE MapGet(patternMatches, patterns[i].id)
                 /\ RightChain(patterns, patternMatches, i + 1)

RightAssociative(patterns, patternMatches) ==
    IF Len(patterns) = 0 THEN FALSE ELSE RightChain(patterns, patternMatches, 1)

\* The for loop of applyLogicalOperations from index i on.
RECURSIVE ChainLoop(_, _, _, _)
ChainLoop(patterns, patternMatches, i, result) ==
    IF i > Len(patterns) THEN result
    ELSE ChainLoop(patterns, patternMatches, i + 1,
                   IF patterns[i].logicalOperator = "OR"
                   THEN result \/ MapGet(patternMatches, patterns[i].id)
                   ELSE result /\ MapGet(patternMatches, patterns[i].id))

applyLogicalOperations(patterns, patternMatches) ==
    IF Len(patterns) = 0 THEN FALSE
    ELSE IF Len(patterns) = 1 THEN MapGet(patternMatches, patterns[1].id)
    ELSE ChainLoop(patterns, patternMatches, 2,
                   MapGet(patternMatches, patterns[1].id))

\* matches.sort((a, b) => a.start - b.start): a stable sort by start.
RECURSIVE SortByStart(_)
MoveToFront(ms, first) ==
    <<ms[first]>> \o SortByStart(SubSeq(ms, 1, first - 1) \o SubSeq(ms, first + 1, Len(ms)))

FirstWithStart(ms, least) == MinOf({k \in 1..Len(ms) : ms[k].start = least})

SortByStart(ms) ==
    IF Len(ms) <= 1 THEN ms
    ELSE MoveToFront(ms, FirstWithStart(ms, MinOf({ms[k].start : k \in 1..Len(ms)})))

\* patterns.filter(p => p.isEnabled)
RECURSIVE FilterEnabled(_)
FilterEnabled(patterns) ==
    IF Len(patterns) = 0 THEN << >>
    ELSE (IF patterns[1].isEnabled THEN <<patterns[1]>> ELSE << >>)
            \o FilterEnabled(Tail(patterns))

\* The body of chunk.forEach for one line: hang when a match loop never ends,
\* else whether the line is pushed to results, and the result pushed.
SecondPass(line, lineIndex, enabledPatterns, pass) ==
    IF pass.hang
    THEN [hang |-> TRUE, included |-> FALSE, result |-> << >>]
    ELSE [hang |-> FALSE,
          included |-> applyLogicalOperations(enabledPatterns, pass.patternMatches)
                          /\ Len(pass.matches) > 0,
          result |-> [lineNumber |-> lineIndex + 1,
                      content |-> line,
                      matches |-> SortByStart(pass.matches)]]

ProcessLine(line, lineIndex, enabledPatterns) ==
    SecondPass(line, lineIndex, enabledPatterns,
               FirstPass(line, enabledPatterns, 1,
                   [hang |-> FALSE, matches |-> << >>, patternMatches |-> EmptyMap]))

VARIABLES
    mPatterns,   \* the patterns argument
    mLine,       \* the line under evaluation
    mOut         \* what the evaluation of the line produced

matchVars == <<mPatterns, mLine, mOut>>

\* The state of LogSearchTool that its logical mode reads besides the patterns.
VARIABLES
    logicalGroups,   \* the groups: id, operator, patterns (pattern ids), isEnabled
    globalOperator,  \* the operator between the groups
    logContent       \* the text searched

groupVars == <<logicalGroups, globalOperator, logContent>>

GroupsIdle ==
    /\ logicalGroups = << >>
    /\ globalOperator = "AND"
    /\ logContent = EmptyText

NotEvaluated == [done |-> FALSE]

Operators == {"AND", "OR", "unset"}

\* Pattern ids are Date.now() stamps: two patterns created in the same
\* millisecond carry the same id. Ids are drawn up to renaming: pattern k takes
\* an id already used or the next unused one.
IdAssignments(n) ==
    {f \in [1..n -> 1..n] :
        \A k \in 1..n : \A v \in 1..(f[k] - 1) : \E j \in 1..(k - 1) : f[j] = v}

ChainTexts == {<<"a">>, <<"b">>}

ChainLines == {<< >>, <<"a">>, <<"b">>, <<"a", "b">>}

PatternLists(n) ==
    {[k \in 1..n |->
        [id |-> ids[k], pattern |-> c[k][1], isRegex |-> FALSE, isEnabled |-> c[k][2],
         color |-> ((k - 1) % 5) + 1, logicalOperator |-> c[k][3]]] :
     ids \in IdAssignments(n),
     c \in [1..n -> ChainTexts \X BOOLEAN \X Operators]}

MatchIdle ==
    /\ mPatterns = << >>
    /\ mLine = << >>
    /\ mOut = NotEvaluated
    /\ GroupsIdle

MatchInit ==
    /\ mPatterns \in UNION {PatternLists(n) : n \in 0..MaxPatterns}
    /\ mLine \in ChainLines
    /\ mOut = NotEvaluated

\* One line of a chunk is evaluated against the enabled patterns.
EvaluateLine ==
    /\ ~mOut.done
    /\ mOut' = [done |-> TRUE] @@ ProcessLine(mLine, 0, FilterEnabled(mPatterns))
    /\ UNCHANGED <<mPatterns, mLine>>

\* ------------------------------------------------------------------------
\* MatchEngine, simple mode: the per-line part of the searchInChunks that has
\* no logical operators, and of LogSearchTool's searchResults in simple mode
\* ------------------------------------------------------------------------

\* Longest line of the simple-mode specification.
MaxLineLen == 3

\* Most patterns in one pattern list of the simple-mode specification.
MaxSimplePatterns == 2

\* enabledPatterns.forEach of the simple mode from pattern i on: the spans
\* pushed to matches; an invalid regular expression is caught and pushes none.
RECURSIVE SimplePass(_, _, _, _)
SimpleAfterPattern(acc, r) == [hang |-> r.hang, matches |-> acc.matches \o r.spans]

SimplePass(line, patterns, i, acc) ==
    IF i > Len(patterns) \/ acc.hang THEN acc
    ELSE SimplePass(line, patterns, i + 1,
                    SimpleAfterPattern(acc, FindMatches(line, patterns[i])))

\* if (matches.length > 0) { matches.sort(...); results.push(...) }
SimpleResult(line, lineIndex, pass) ==
    IF pass.hang
    THEN [hang |-> TRUE, included |-> FALSE, result |-> << >>]
    ELSE [hang |-> FALSE,
          included |-> Len(pass.matches) > 0,
          result |-> [lineNumber |-> lineIndex + 1,
                      content |-> line,
                      matches |-> SortByStart(pass.matches)]]

SimpleProcessLine(line, lineIndex, enabledPatterns) ==
    SimpleResult(line, lineIndex,
                 SimplePass(line, enabledPatterns, 1, [hang |-> FALSE, matches |-> << >>]))

\* The pattern texts of the simple-mode specification: literal texts and
\* regular expressions, one that matches the empty string and one that does
\* not compile among them.
SimpleTexts ==
    {[pattern |-> <<"a">>, isRegex |-> FALSE],
     [pattern |-> <<"a", "a">>, isRegex |-> FALSE],
     [pattern |-> <<"a">>, isRegex |-> TRUE],
     [pattern |-> <<"a", "*">>, isRegex |-> TRUE],
     [pattern |-> <<"(">>, isRegex |-> TRUE]}

SimplePatternLists(n) ==
    {[k \in 1..n |->
        [id |-> k, pattern |-> c[k][1].pattern, isRegex |-> c[k][1].isRegex,
         isEnabled |-> c[k][2], color |-> k, logicalOperator |-> "unset"]] :
     c \in [1..n -> SimpleTexts \X BOOLEAN]}

SimpleLines == TextsOver({"a", "A", DOTTED_I}, MaxLineLen)

SimpleInit ==
    /\ mPatterns \in UNION {SimplePatternLists(n) : n \in 0..MaxSimplePatterns}
    /\ mLine \in SimpleLines
    /\ mOut = NotEvaluated

\* One line is evaluated against the enabled patterns in simple mode.
EvaluateSimpleLine ==
    /\ ~mOut.done
    /\ mOut' = [done |-> TRUE] @@ SimpleProcessLine(mLine, 0, FilterEnabled(mPatterns))
    /\ UNCHANGED <<mPatterns, mLine>>

\* ------------------------------------------------------------------------
\* MatchEngine, grouped mode: LogSearchTool's searchResults in logical mode
\* ------------------------------------------------------------------------

\* Most logical groups of the grouped-mode specification.
MaxGroups == 2

\* group.patterns.map(pid => patterns.find(p => p.id === pid)).filter(Boolean)
RECURSIVE ResolvePatterns(_, _)
FindPattern(patterns, pid) ==
    IF \E k \in 1..Len(patterns) : patterns[k].id = pid
    THEN <<patterns[MinOf({k \in 1..Len(patterns) : patterns[k].id = pid})]>>
    ELSE << >>

ResolvePatterns(pids, patterns) ==
    IF Len(pids) = 0 THEN << >>
    ELSE FindPattern(patterns, pids[1]) \o ResolvePatterns(Tail(pids), patterns)

\* groupPatterns.map(pattern => ...) from pattern i on: hasMatch of each
\* pattern and the spans of all of them; an invalid regular expression is
\* caught and leaves its matches empty.
RECURSIVE PatternMatches(_, _, _, _)
AfterGroupPattern(acc, r) ==
    [hang |-> r.hang,
     hasMatch |-> Append(acc.hasMatch, Len(r.spans) > 0),
     allMatches |-> acc.allMatches \o r.spans]

PatternMatches(line, groupPatterns, i, acc) ==
    IF i > Len(groupPatterns) \/ acc.hang THEN acc
    ELSE PatternMatches(line, groupPatterns, i + 1,
                        AfterGroupPattern(acc, FindMatches(line, groupPatterns[i])))

\* A group that matches whenever one of its patterns does, whatever its
\* operator.
AnyPatternMatches(operator, hasMatch) == \E k \in 1..Len(hasMatch) : hasMatch[k]

\* group.operator === 'AND' ? patternMatches.every(...) : patternMatches.some(...)
groupMatches(operator, hasMatch) ==
    IF operator = "AND"
    THEN \A k \in 1..Len(hasMatch) : hasMatch[k]
    ELSE \E k \in 1..Len(hasMatch) : hasMatch[k]

GroupResult(group, pm) ==
    [hang |-> pm.hang,
     group |-> group.id,
     matches |-> groupMatches(group.operator, pm.hasMatch),
     allMatches |-> pm.allMatches]

\* enabledGroups.map(group => ...) from group i on.
RECURSIVE GroupResults(_, _, _, _, _)
AfterGroup(line, enabledGroups, patterns, i, acc, gr) ==
    IF gr.hang THEN [hang |-> TRUE, groupResults |-> acc]
    ELSE GroupResults(line, enabledGroups, patterns, i + 1, Append(acc, gr))

GroupResults(line, enabledGroups, patterns, i, acc) ==
    IF i > Len(enabledGroups) THEN [hang |-> FALSE, groupResults |-> acc]
    ELSE AfterGroup(line, enabledGroups, patterns, i, acc,
             GroupResult(enabledGroups[i],
                 PatternMatches(line, ResolvePatterns(enabledGroups[i].patterns, patterns), 1,
                     [hang |-> FALSE, hasMatch |-> << >>, allMatches |-> << >>])))

\* globalOperator === 'AND' ? groupResults.every(...) : groupResults.some(...)
lineMatches(operator, groupResults) ==
    IF operator = "AND"
    THEN \A k \in 1..Len(groupResults) : groupResults[k].matches
    ELSE \E k \in 1..Len(groupResults) : groupResults[k].matches

\* groupResults.flatMap(gr => gr.allMatches)
RECURSIVE FlatAllMatches(_)
FlatAllMatches(groupResults) ==
    IF Len(groupResults) = 0 THEN << >>
    ELSE groupResults[1].allMatches \o FlatAllMatches(Tail(groupResults))

\* groupResults.filter(gr => gr.matches).map(gr => gr.group.id)
RECURSIVE MatchedGroups(_)
MatchedGroups(groupResults) ==
    IF Len(groupResults) = 0 THEN << >>
    ELSE (IF groupResults[1].matches THEN <<groupResults[1].group>> ELSE << >>)
            \o MatchedGroups(Tail(groupResults))

\* logicalGroups.filter(g => g.isEnabled && g.patterns.length > 0)
RECURSIVE FilterGroups(_)
FilterGroups(groups) ==
    IF Len(groups) = 0 THEN << >>
    ELSE (IF groups[1].isEnabled /\ Len(groups[1].patterns) > 0
          THEN <<groups[1]>> ELSE << >>)
            \o FilterGroups(Tail(groups))

\* lines.forEach((line, index) => ...) of the logical mode from 0-based index
\* on: the results pushed, or hang.
RECURSIVE LogicalLines(_, _, _, _, _, _)
AfterLogicalLine(lines, index, enabledGroups, patterns, operator, acc, grs) ==
    IF grs.hang THEN [hang |-> TRUE, results |-> acc]
    ELSE LogicalLines(lines, index + 1, enabledGroups, patterns, operator,
             IF lineMatches(operator, grs.groupResults)
             THEN Append(acc, [lineNumber |-> index + 1,
                               content |-> lines[index + 1],
                               matches |-> SortByStart(FlatAllMatches(grs.groupResults)),
                               matchedGroups |-> MatchedGroups(grs.groupResults)])
             ELSE acc)

LogicalLines(lines, index, enabledGroups, patterns, operator, acc) ==
    IF index >= Len(lines) THEN [hang |-> FALSE, results |-> acc]
    ELSE AfterLogicalLine(lines, index, enabledGroups, patterns, operator, acc,
             GroupResults(lines[index + 1], enabledGroups, patterns, 1, << >>))

\* searchResults in logical mode.
searchResults(content, patterns, groups, operator) ==
    IF Len(content) = 0 \/ Len(patterns) = 0
    THEN [hang |-> FALSE, results |-> << >>]
    ELSE IF Len(FilterGroups(groups)) = 0
         THEN [hang |-> FALSE, results |-> << >>]
         ELSE LogicalLines(Split(content), 0, FilterGroups(groups), patterns, operator, << >>)

\* The pattern collections of the grouped-mode specification: the literal
\* patterns "a" and "b", the second one enabled or not, a third pattern that is
\* a regular expression matching the empty string, and no pattern at all. A
\* group may also hold the id of a pattern that was removed.
GroupedPattern(id, text, isRegex, isEnabled) ==
    [id |-> id, pattern |-> text, isRegex |-> isRegex, isEnabled |-> isEnabled,
     color |-> id, logicalOperator |-> "unset"]

GroupedCollections ==
    {<< >>,
     <<GroupedPattern(1, <<"a">>, FALSE, TRUE), GroupedPattern(2, <<"b">>, FALSE, TRUE)>>,
     <<GroupedPattern(1, <<"a">>, FALSE, TRUE), GroupedPattern(2, <<"b">>, FALSE, FALSE)>>,
     <<GroupedPattern(1, <<"a">>, FALSE, TRUE), GroupedPattern(2, <<"b">>, FALSE, TRUE),
       GroupedPattern(3, <<"a", "*">>, TRUE, TRUE)>>}

GroupPatternIds == {<< >>, <<1>>, <<2>>, <<3>>, <<1, 2>>, <<1, 3>>}

GroupLists(n) ==
    {[k \in 1..n |->
        [id |-> k, operator |-> c[k][1], patterns |-> c[k][2], isEnabled |-> c[k][3]]] :
     c \in [1..n -> {"AND", "OR"} \X GroupPatternIds \X BOOLEAN]}

GroupedContents ==
    {<< >>, <<"a">>, <<"a", "b">>, <<"a", NL, "b">>, <<NL, "a">>}

GroupedInit ==
    /\ mPatterns \in GroupedCollections
    /\ logicalGroups \in UNION {GroupLists(n) : n \in 0..MaxGroups}
    /\ globalOperator \in {"AND", "OR"}
    /\ logContent \in GroupedContents
    /\ mLine = << >>
    /\ mOut = NotEvaluated

\* The memo of searchResults is computed in logical mode.
ComputeSearchResults ==
    /\ ~mOut.done
    /\ mOut' = [done |-> TRUE]
                   @@ searchResults(logContent, mPatterns, logicalGroups, globalOperator)
    /\ UNCHANGED <<mPatterns, mLine, groupVars>>

\* ------------------------------------------------------------------------
\* ChunkedSearchScheduler: useStreamingSearch
\* ------------------------------------------------------------------------

\* Most searchInChunks calls in one behaviour.
MaxRuns == 2

\* chunkSize's default, 1000 lines, scaled to the model's corpora.
DEFAULT_CHUNK_SIZE == 2

RECURSIVE Gcd(_, _)
Gcd(a, b) == IF b = 0 THEN a ELSE Gcd(b, a % b)

\* The number n / d, in lowest terms: progress is a float, and equal numbers
\* are equal values.
Rat(n, d) == [num |-> n \div Gcd(n, d), den |-> d \div Gcd(n, d)]

Zero == Rat(0, 1)

Hundred == Rat(100, 1)

VARIABLES
    sState,           \* the hook's state: isSearching, results, processedLines,
                      \* totalLines, progress
    searchCancelRef,  \* searchCancelRef.current: the run whose AbortController
                      \* it holds, 0 for null
    runs,             \* the searchInChunks calls so far, in call order
    frozen,           \* the thread is inside a match loop that never ends
    lateUpdates       \* history: what the step just taken did on behalf of a run
                      \* that was superseded or cancelled before

searchVars == <<sState, searchCancelRef, runs, frozen, lateUpdates>>

SearchFields == {"isSearching", "results", "processedLines", "totalLines", "progress"}

InitialSearchState ==
    [isSearching |-> FALSE, results |-> << >>, processedLines |-> 0,
     totalLines |-> 0, progress |-> Zero]

SearchInit ==
    /\ sState = InitialSearchState
    /\ searchCancelRef = 0
    /\ runs = << >>
    /\ frozen = FALSE
    /\ lateUpdates = {}

\* lines.slice(i, Math.min(i + chunkSize, lines.length)) evaluated line by
\* line from 0-based index k: the results pushed, or hang.
RECURSIVE ProcessChunk(_, _, _, _, _)
AfterLine(lines, k, end, enabledPatterns, acc, r) ==
    IF r.hang THEN [hang |-> TRUE, results |-> acc]
    ELSE ProcessChunk(lines, k + 1, end, enabledPatterns,
                      IF r.included THEN Append(acc, r.result) ELSE acc)

ProcessChunk(lines, k, end, enabledPatterns, acc) ==
    IF k >= end THEN [hang |-> FALSE, results |-> acc]
    ELSE AfterLine(lines, k, end, enabledPatterns, acc,
                   ProcessLine(lines[k + 1], k, enabledPatterns))

ChunkEnd(i, chunkSize, n) == IF i + chunkSize < n THEN i + chunkSize ELSE n

\* The fields in which two states differ.
Changed(old, new) == {f \in SearchFields : old[f] # new[f]}

\* What run r did when it was no longer the newest run, after a call of
\* cancelSearch had cancelled it, or after clearResults had.
Late(r, did) ==
    {[why |-> "superseded", what |-> d] : d \in IF r # Len(runs) THEN did ELSE {}}
    \cup {[why |-> "cancelled", what |-> d] :
              d \in IF runs[r].cancelled = "cancelSearch" THEN did ELSE {}}
    \cup {[why |-> "cleared", what |-> d] :
              d \in IF runs[r].cancelled = "clearResults" THEN did ELSE {}}

\* The abort cancelSearch leaves out.
NoAbort(rs, r) == rs

\* controller.abort() on the run the ref holds.
Abort(rs, r) == IF r = 0 THEN rs ELSE [rs EXCEPT ![r].aborted = TRUE]

\* A new run's record.
NewRun(lines, enabledPatterns, chunkSize) ==
    [lines |-> lines, enabledPatterns |-> enabledPatterns, chunkSize |-> chunkSize,
     i |-> 0, results |-> << >>, processedLines |-> 0, aborted |-> FALSE,
     cancelled |-> "no", pc |-> "yield"]

\* setState(prev => ({...prev, isSearching: true, results: [], ...}))
Started(prev, totalLines) ==
    [prev EXCEPT !.isSearching = TRUE, !.results = << >>, !.processedLines = 0,
                 !.totalLines = totalLines, !.progress = Zero]

\* Array.prototype.reverse()
RECURSIVE Reverse(_)
Reverse(ls) == IF Len(ls) = 0 THEN << >> ELSE Append(Reverse(Tail(ls)), Head(ls))

\* The results are published newest first.
PublishedNewestFirst(prev, results, processedLines, totalLines) ==
    [prev EXCEPT !.results = Reverse(results), !.processedLines = processedLines,
                 !.progress = Rat(processedLines * 100, totalLines)]

\* The progress is published as a whole number of percent.
PublishedWholePercent(prev, results, processedLines, totalLines) ==
    [prev EXCEPT !.results = results, !.processedLines = processedLines,
                 !.progress = Rat((processedLines * 100) \div totalLines, 1)]

\* setState(prev => ({...prev, results: [...results], processedLines, progress}))
Published(prev, results, processedLines, totalLines) ==
    [prev EXCEPT !.results = results, !.processedLines = processedLines,
                 !.progress = Rat(processedLines * 100, totalLines)]

\* The first loop iteration of a run with enabled patterns: its own controller
\* is not aborted, chunk is what its first chunk produced.
FirstChunk(run, end, chunk) ==
    IF chunk.hang
    THEN /\ sState' = Started(sState, Len(run.lines))
         /\ runs' = Append(Abort(runs, searchCancelRef), [run EXCEPT !.pc = "hung"])
         /\ frozen' = TRUE
    ELSE /\ sState' = Published(Started(sState, Len(run.lines)), chunk.results, end,
                                Len(run.lines))
         /\ runs' = Append(Abort(runs, searchCancelRef),
                           [run EXCEPT !.results = chunk.results, !.processedLines = end])
         /\ UNCHANGED frozen

\* A start without the early return for no enabled pattern.
StartRunWithoutEarlyReturn(run, end) ==
    /\ searchCancelRef' = Len(runs) + 1
    /\ lateUpdates' = {}
    /\ FirstChunk(run, end, ProcessChunk(run.lines, 0, end, run.enabledPatterns, << >>))

StartRun(run, end) ==
    /\ searchCancelRef' = Len(runs) + 1
    /\ lateUpdates' = {}
    /\ IF Len(run.enabledPatterns) = 0
       THEN /\ sState' = [sState EXCEPT !.results = << >>]
            /\ runs' = Append(Abort(runs, searchCancelRef), [run EXCEPT !.pc = "done"])
            /\ UNCHANGED frozen
       ELSE FirstChunk(run, end,
                       ProcessChunk(run.lines, 0, end, run.enabledPatterns, << >>))

\* searchInChunks(content, patterns, chunkSize) up to its first await: the
\* previous run's controller is aborted, the state is reset and the first chunk
\* is processed and published.
searchInChunks(content, patterns, chunkSize) ==
    StartRun(NewRun(Split(content), FilterEnabled(patterns), chunkSize),
             ChunkEnd(0, chunkSize, Len(Split(content))))

\* The state after run r's update, and what the update changed, recorded when
\* the run was superseded or cancelled before.
Update(r, new, did) ==
    /\ sState' = new
    /\ lateUpdates' = Late(r, did \cup Changed(sState, new))

\* The loop iteration at index i of run r, not aborted.
NextChunk(r, run, i, end, chunk) ==
    IF chunk.hang
    THEN /\ runs' = [runs EXCEPT ![r].pc = "hung"]
         /\ frozen' = TRUE
         /\ lateUpdates' = Late(r, {"chunk"})
         /\ UNCHANGED sState
    ELSE /\ Update(r, Published(sState, run.results \o chunk.results,
                                run.processedLines + (end - i), Len(run.lines)),
                   {"chunk"})
         /\ runs' = [runs EXCEPT ![r].i = i,
                                 ![r].results = run.results \o chunk.results,
                                 ![r].processedLines = run.processedLines + (end - i)]
         /\ UNCHANGED frozen

Continue(r, run, i, end) ==
    /\ run.pc = "yield"
    /\ UNCHANGED searchCancelRef
    /\ IF i < Len(run.lines)
       THEN IF run.aborted
            THEN \* throw new Error('Search cancelled'), caught
                 /\ Update(r, [sState EXCEPT !.isSearching = FALSE], {})
                 /\ runs' = [runs EXCEPT ![r].pc = "done"]
                 /\ UNCHANGED frozen
            ELSE NextChunk(r, run, i, end,
                           ProcessChunk(run.lines, i, end, run.enabledPatterns, << >>))
       ELSE \* the loop is over
            /\ Update(r, [sState EXCEPT !.isSearching = FALSE, !.progress = Hundred], {})
            /\ runs' = [runs EXCEPT ![r].pc = "done"]
            /\ UNCHANGED frozen

\* Run r continues after its await: the next chunk, or the end of the loop, or
\* the 'Search cancelled' error of the abort check at the head of the loop.
Resume(r) ==
    Continue(r, runs[r], runs[r].i + runs[r].chunkSize,
             ChunkEnd(runs[r].i + runs[r].chunkSize, runs[r].chunkSize, Len(runs[r].lines)))

\* The runs after cancelSearch(), called by the caller or by clearResults:
\* the controller the ref holds is aborted. The run records by whom it was
\* cancelled in flight.
RunsAfterCancel(by) ==
    IF searchCancelRef = 0 THEN runs
    ELSE [Abort(runs, searchCancelRef) EXCEPT ![searchCancelRef].cancelled =
              IF runs[searchCancelRef].pc = "yield" /\ @ = "no" THEN by ELSE @]

cancelSearch ==
    /\ runs' = RunsAfterCancel("cancelSearch")
    /\ searchCancelRef' = 0
    /\ lateUpdates' = {}
    /\ UNCHANGED <<sState, frozen>>

clearResults ==
    /\ runs' = RunsAfterCancel("clearResults")
    /\ searchCancelRef' = 0
    /\ sState' = InitialSearchState
    /\ lateUpdates' = {}
    /\ UNCHANGED frozen

SearchContents ==
    {<<"a">>,
     <<"a", NL, "b", NL, "a", "b">>,
     <<"b", NL, "a", NL, "b", NL, "a", NL, "a">>}

LiteralPattern(id, text, enabled) ==
    [id |-> id, pattern |-> text, isRegex |-> FALSE, isEnabled |-> enabled,
     color |-> id, logicalOperator |-> "unset"]

SearchPatternLists ==
    {<<LiteralPattern(1, <<"a">>, TRUE)>>,
     <<LiteralPattern(1, <<"a">>, FALSE), LiteralPattern(2, <<"b">>, TRUE)>>,
     <<LiteralPattern(1, <<"a">>, FALSE)>>}

\* Pattern lists with a regular expression that does not compile: before a
\* literal pattern joined by OR, and after a literal pattern joined by AND.
ChainPattern(id, text, isRegex, operator) ==
    [id |-> id, pattern |-> text, isRegex |-> isRegex, isEnabled |-> TRUE,
     color |-> id, logicalOperator |-> operator]

InvalidRegexPatternLists ==
    {<<ChainPattern(1, <<"(">>, TRUE, "unset"), ChainPattern(2, <<"a">>, FALSE, "OR")>>,
     <<ChainPattern(1, <<"a">>, FALSE, "unset"), ChainPattern(2, <<"(">>, TRUE, "AND")>>}

\* Pattern lists of one regular expression: one that matches a character, one
\* that also matches the empty string.
RegexPatternLists ==
    {<<ChainPattern(1, <<"a">>, TRUE, "unset")>>,
     <<ChainPattern(1, <<"a", "*">>, TRUE, "unset")>>}

\* ------------------------------------------------------------------------
\* SearchController: useSearchController
\* ------------------------------------------------------------------------

\* Most triggerSearch and forceSearch calls in one behaviour.
MaxCalls == 2

\* The debounce delay of 300 ms, in ticks of 150 ms.
DEBOUNCE_TICKS == 2

\* The confirmation thresholds, scaled to the model's corpora: WARN_LINES stands
\* for 50000 lines, WARN_SIZE_BYTES for 10 megabytes.
WARN_LINES == 1

WARN_SIZE_BYTES == 4

VARIABLES
    cState,         \* the controller's state: isSearchEnabled, searchRequested
                    \* (autoSearchEnabled and lastSearchTime, which nothing
                    \* reads, are left out)
    debounceTimer,  \* the pending timeout of debounceTimer.current with the
                    \* ticks left until it runs, NoTimer when none is pending
    sinceCall,      \* history: the ticks since the last call, counted up to
                    \* the debounce delay
    lastCall,       \* history: the last triggerSearch or forceSearch call and
                    \* what it returned and left untouched
    fired,          \* history: the calls whose timer started a search
    confirmAsked    \* history: per content, the last call that was answered
                    \* requiresConfirmation, 0 when none

controllerVars == <<cState, debounceTimer, sinceCall, lastCall, fired, confirmAsked>>

NoTimer == [pending |-> FALSE]

NoCall == [no |-> 0, burst |-> 0]

CR == "\r"

Whitespace == {" ", NL, CR}

\* String.prototype.trim()
RECURSIVE Trim(_)
Trim(t) ==
    IF Len(t) = 0 THEN t
    ELSE IF t[1] \in Whitespace THEN Trim(Tail(t))
    ELSE IF t[Len(t)] \in Whitespace THEN Trim(SubSeq(t, 1, Len(t) - 1))
    ELSE t

\* No content is large.
NeverWarn(content) == FALSE

shouldWarnLargeContent(content) ==
    Len(Split(content)) > WARN_LINES \/ BlobSize(content) > WARN_SIZE_BYTES

ControllerContents ==
    {<<" ">>,
     <<"a">>,
     <<"a", NL, "a">>,
     <<"a", "b", "a", "b", "a">>}

OnePattern(enabled) == <<LiteralPattern(1, <<"a">>, enabled)>>

CallArgs(content, patterns, force, showWarning) ==
    [content |-> content, patterns |-> patterns, force |-> force,
     showWarning |-> showWarning]

\* The calls of triggerSearch: the options on each content that is not blank
\* (force without showWarning is the call forceSearch makes), a blank content,
\* and a list with no enabled pattern.
TriggerSearchCalls ==
    ({CallArgs(content, OnePattern(TRUE), force, showWarning) :
        content \in ControllerContents \ {<<" ">>},
        force \in BOOLEAN, showWarning \in BOOLEAN}
     \ {CallArgs(content, OnePattern(TRUE), TRUE, FALSE) :
        content \in ControllerContents})
    \cup {CallArgs(<<" ">>, OnePattern(TRUE), FALSE, FALSE),
          CallArgs(<<"a">>, OnePattern(FALSE), FALSE, FALSE)}

\* The calls of forceSearch.
ForceSearchCalls ==
    {CallArgs(content, OnePattern(TRUE), TRUE, FALSE) :
        content \in ControllerContents \ {<<" ">>}}

ControllerInit ==
    /\ cState = [isSearchEnabled |-> TRUE, searchRequested |-> FALSE]
    /\ debounceTimer = NoTimer
    /\ sinceCall = 0
    /\ lastCall = NoCall
    /\ fired = {}
    /\ confirmAsked = [c \in ControllerContents |-> 0]

ControllerIdle == ControllerInit

\* The burst of a call made now: a call less than the debounce delay after
\* the previous one continues its burst.
Burst ==
    IF lastCall.no > 0 /\ sinceCall < DEBOUNCE_TICKS
    THEN lastCall.burst ELSE lastCall.burst + 1

\* The record of a call.
Call(kind, content, patterns, force, showWarning, returned) ==
    [no |-> lastCall.no + 1, burst |-> Burst,
     kind |-> kind, content |-> content, force |-> force, showWarning |-> showWarning,
     enabledPatterns |-> Len(FilterEnabled(patterns)),
     returned |-> returned]

\* What is remembered of the call that armed a timeout.
Origin(kind, content, force, showWarning) ==
    [no |-> lastCall.no + 1, burst |-> Burst, kind |-> kind, content |-> content,
     force |-> force, showWarning |-> showWarning]

\* An early return that clears the pending timeout on its way.
IgnoredCallDroppingTimer(kind, content, patterns, force, showWarning) ==
    /\ lastCall' = Call(kind, content, patterns, force, showWarning, "undefined")
    /\ sinceCall' = 0
    /\ debounceTimer' = NoTimer
    /\ UNCHANGED <<cState, fired, confirmAsked, searchVars>>

\* if (!state.isSearchEnabled && !options.force) return;
IgnoredCall(kind, content, patterns, force, showWarning) ==
    /\ lastCall' = Call(kind, content, patterns, force, showWarning, "undefined")
    /\ sinceCall' = 0
    /\ UNCHANGED <<cState, debounceTimer, fired, confirmAsked, searchVars>>

\* triggerSearch(content, patterns, {force, showWarning}); kind tells whether
\* the caller called it or forceSearch did.
TriggerSearchCall(kind, content, patterns, force, showWarning) ==
    IF ~cState.isSearchEnabled /\ ~force
    THEN IgnoredCall(kind, content, patterns, force, showWarning)
    ELSE IF Len(FilterEnabled(patterns)) = 0 \/ Trim(content) = EmptyText
    THEN /\ clearResults
         /\ lastCall' = Call(kind, content, patterns, force, showWarning, "undefined")
         /\ sinceCall' = 0
         /\ UNCHANGED <<cState, debounceTimer, fired, confirmAsked>>
    ELSE IF showWarning /\ shouldWarnLargeContent(content)
    THEN /\ lastCall' = Call(kind, content, patterns, force, showWarning,
                             "requiresConfirmation")
         /\ confirmAsked' = [confirmAsked EXCEPT ![content] = lastCall.no + 1]
         /\ sinceCall' = 0
         /\ UNCHANGED <<cState, debounceTimer, fired, searchVars>>
    ELSE /\ debounceTimer' =
                [pending |-> TRUE, content |-> content,
                 enabledPatterns |-> FilterEnabled(patterns),
                 remaining |-> DEBOUNCE_TICKS,
                 call |-> Origin(kind, content, force, showWarning)]
         /\ lastCall' = Call(kind, content, patterns, force, showWarning, "scheduled")
         /\ sinceCall' = 0
         /\ UNCHANGED <<cState, fired, confirmAsked, searchVars>>

triggerSearch(content, patterns, force, showWarning) ==
    TriggerSearchCall("triggerSearch", content, patterns, force, showWarning)

\* forceSearch(content, patterns): triggerSearch with { force: true }.
forceSearch(content, patterns) ==
    TriggerSearchCall("forceSearch", content, patterns, TRUE, FALSE)

\* The timeout's callback: the search starts, searchRequested is set.
TimerFires ==
    /\ debounceTimer.pending
    /\ debounceTimer.remaining = 0
    /\ searchInChunks(debounceTimer.content, debounceTimer.enabledPatterns,
                      DEFAULT_CHUNK_SIZE)
    /\ cState' = [cState EXCEPT !.searchRequested = TRUE]
    /\ debounceTimer' = NoTimer
    /\ fired' = fired \cup
          {[call |-> debounceTimer.call,
            confirmNo |-> confirmAsked[debounceTimer.content]]}
    /\ UNCHANGED <<sinceCall, lastCall, confirmAsked>>

enableSearch(enabled) ==
    /\ cState' = [cState EXCEPT !.isSearchEnabled = enabled]
    /\ IF enabled THEN UNCHANGED searchVars ELSE cancelSearch
    /\ UNCHANGED <<debounceTimer, sinceCall, lastCall, fired, confirmAsked>>

clearSearch ==
    /\ debounceTimer' = NoTimer
    /\ clearResults
    /\ cState' = [cState EXCEPT !.searchRequested = FALSE]
    /\ UNCHANGED <<sinceCall, lastCall, fired, confirmAsked>>

\* A tick of the clock with the timeout t pending.
TimerAfterTick(t) ==
    IF t.pending THEN [t EXCEPT !.remaining = t.remaining - 1] ELSE t

\* Time passes; the timeouts that are due run before the clock moves on: the
\* debounce timeout, and the zero-delay timeouts the started runs wait for.
Tick ==
    /\ debounceTimer.pending => debounceTimer.remaining > 0
    /\ \A r \in 1..Len(runs) : runs[r].pc # "yield"
    /\ sinceCall' = IF sinceCall < DEBOUNCE_TICKS THEN sinceCall + 1 ELSE sinceCall
    /\ debounceTimer' = TimerAfterTick(debounceTimer)
    /\ UNCHANGED <<cState, lastCall, fired, confirmAsked, searchVars>>

\* ------------------------------------------------------------------------
\* Ingestion: useFileProcessor and the file-processing worker
\* ------------------------------------------------------------------------

\* Most processFiles calls in one behaviour.
MaxJobs == 2

\* Most members of a zip archive.
MaxMembers == 2

VARIABLES
    fpState,        \* the client's state: isProcessing, progress, error, result
    currentJobId,   \* the client's currentJobId.current, NoJob for null
    promises,       \* per processFiles call, the state of the promise it returned
    toWorker,       \* messages posted to the worker and not yet handled
    toMain,         \* messages posted by the worker and not yet handled
    processor,      \* the worker's processor: cancelled, currentJobId
    executions,     \* the worker's onmessage calls for PROCESS_FILES, in order
    handled,        \* history: what the client did with the last message it took
    workerStep      \* history: the execution the step just taken continued

ingestVars ==
    <<fpState, currentJobId, promises, toWorker, toMain, processor, executions,
      handled, workerStep>>

\* FileProcessor in isolation: one processFiles call and what it returns.
VARIABLES
    pWorker,   \* the worker script that runs the job
    pUntar,    \* how the untar library reports the type of an entry
    pFiles,    \* the files argument
    pOut       \* what the call produced

pipelineVars == <<pWorker, pUntar, pFiles, pOut>>

PipelineIdle ==
    /\ pWorker = "none"
    /\ pUntar = "none"
    /\ pFiles = << >>
    /\ pOut = [done |-> FALSE]

\* LogSearchTool's handleFileUpload.
VARIABLES
    hPath,     \* history: the path the last upload took
    hText      \* history: the text the last upload read

handlerVars == <<hPath, hText>>

HandlerIdle == hPath = "none" /\ hText = << >>

\* useChunkedUpload.
VARIABLES
    uState,       \* the hook's state: isUploading, progress, error
    uController,  \* abortController.current: the call that made it and whether
                  \* it is aborted; NoController for null
    uCalls        \* the uploadLargeFile calls so far, in call order

chunkedVars == <<uState, uController, uCalls>>

NoController == [owner |-> 0, aborted |-> FALSE]

UploadIdleState == [isUploading |-> FALSE, progress |-> [stage |-> "null"], error |-> "null"]

ChunkedIdle ==
    /\ uState = UploadIdleState
    /\ uController = NoController
    /\ uCalls = << >>

\* LogSearchTool's pattern collection.
VARIABLES
    uiPatterns,   \* the patterns state
    newPattern,   \* the newPattern state: the text of the input field
    patternGroups, \* the groups state of usePatternGroups
    now           \* Date.now()

collectionVars == <<uiPatterns, newPattern, patternGroups, now>>

CollectionIdle ==
    uiPatterns = << >> /\ newPattern = << >> /\ patternGroups = << >> /\ now = 1

addedVars == <<pipelineVars, handlerVars, chunkedVars, collectionVars>>

AddedIdle == PipelineIdle /\ HandlerIdle /\ ChunkedIdle /\ CollectionIdle

NoJob == 0

NoProgress == [stage |-> "null", progress |-> 0]

NoResult == [type |-> "null"]

NoError == "null"

IdleState ==
    [isProcessing |-> FALSE, progress |-> NoProgress, error |-> NoError,
     result |-> NoResult]

NothingHandled == [outcome |-> "none"]

NoStep == [job |-> NoJob]

\* The files a job is started with: a text file, a file whose buffer cannot be
\* decoded, and zip archives of one member or more.
FileInputs ==
    {[kind |-> "text", members |-> 0], [kind |-> "broken", members |-> 0]}
    \cup {[kind |-> "zip", members |-> m] : m \in 1..MaxMembers}

IngestInit ==
    /\ fpState = IdleState
    /\ currentJobId = NoJob
    /\ promises = << >>
    /\ toWorker = << >>
    /\ toMain = << >>
    /\ processor = [cancelled |-> FALSE, currentJobId |-> NoJob]
    /\ executions = << >>
    /\ handled = NothingHandled
    /\ workerStep = NoStep

IngestIdle == IngestInit /\ AddedIdle

\* Math.round(n / d) for n >= 0
Round(n, d) == (2 * n + d) \div (2 * d)

\* The id postProgress reads: the processor's, which the last message set.
ProgressId(p, by) == p.currentJobId

\* postProgress(stage, progress) in the execution of job by, the processor
\* being p and the outgoing queue q.
postProgress(p, q, stage, progress, by) ==
    IF p.cancelled THEN q
    ELSE Append(q, [type |-> "PROGRESS", id |-> ProgressId(p, by), by |-> by,
                    data |-> [stage |-> stage,
                              progress |-> IF progress > 100 THEN 100 ELSE progress]])

\* processFiles up to processSingleFile's choice of the file's kind.
PostedOnStart(p, q, by) ==
    postProgress(p, postProgress(p, q, "reading", 0, by), "reading", 10, by)

\* processRegularFile on a buffer that decodes, and the SUCCESS that follows.
PostedForText(p, q, id) ==
    Append(postProgress(p, postProgress(p, q, "reading", 70, id), "reading", 90, id),
           [type |-> "SUCCESS", id |-> id, by |-> id,
            data |-> [type |-> "text", files |-> 1]])

\* processRegularFile on a buffer that does not decode, and the ERROR of
\* onmessage's catch.
PostedForBroken(p, q, id) ==
    Append(postProgress(p, q, "reading", 70, id),
           [type |-> "ERROR", id |-> id, by |-> id, data |-> "Failed to process"])

\* decompressFile and decompressZip up to zip.loadAsync.
PostedForZip(p, q, id) ==
    postProgress(p, postProgress(p, q, "decompressing", 20, id), "decompressing", 40, id)

PostedFor(p, q, id, file) ==
    IF file.kind = "text" THEN PostedForText(p, PostedOnStart(p, q, id), id)
    ELSE IF file.kind = "broken" THEN PostedForBroken(p, PostedOnStart(p, q, id), id)
    ELSE PostedForZip(p, PostedOnStart(p, q, id), id)

\* The processor after onmessage took PROCESS_FILES with this id.
ProcessorForJob(p, id) == [cancelled |-> FALSE, currentJobId |-> id]

\* self.onmessage for PROCESS_FILES: the job runs to its end, or to its first
\* await that gives the thread away.
ReceiveProcessFiles(msg) ==
    /\ processor' = ProcessorForJob(processor, msg.id)
    /\ toMain' = PostedFor(ProcessorForJob(processor, msg.id), toMain, msg.id, msg.file)
    /\ executions' = Append(executions,
          [id |-> msg.id, members |-> msg.file.members, next |-> 1,
           pc |-> IF msg.file.kind = "zip" THEN "await" ELSE "done"])
    /\ workerStep' = [job |-> msg.id, processed |-> TRUE,
                      newest |-> msg.id]

\* self.onmessage for CANCEL.
ReceiveCancel(msg) ==
    /\ processor' = [cancelled |-> TRUE, currentJobId |-> msg.id]
    /\ toMain' = Append(toMain, [type |-> "CANCELLED", id |-> msg.id, by |-> NoJob])
    /\ workerStep' = NoStep
    /\ UNCHANGED executions

\* The worker takes the next message.
WorkerOnMessage ==
    /\ Len(toWorker) > 0
    /\ toWorker' = Tail(toWorker)
    /\ IF Head(toWorker).type = "PROCESS_FILES"
       THEN ReceiveProcessFiles(Head(toWorker))
       ELSE ReceiveCancel(Head(toWorker))
    /\ UNCHANGED <<fpState, currentJobId, promises, handled>>

\* The id of the last PROCESS_FILES message the worker took.
NewestJob == IF Len(executions) = 0 THEN NoJob ELSE executions[Len(executions)].id

\* decompressZip's loop after an await: the next member, unless cancelled.
NextMember(e, x) ==
    IF processor.cancelled
    THEN /\ executions' = [executions EXCEPT ![e].pc = "done"]
         /\ workerStep' = [job |-> x.id, processed |-> FALSE, newest |-> NewestJob]
         /\ UNCHANGED toMain
    ELSE /\ toMain' = postProgress(processor, toMain, "extracting",
                          60 + Round((x.next - 1) * 30, x.members), x.id)
         /\ executions' = [executions EXCEPT ![e].next = x.next + 1]
         /\ workerStep' = [job |-> x.id, processed |-> TRUE, newest |-> NewestJob]

\* After the last member: the result, and onmessage's SUCCESS unless cancelled.
Finish(e, x) ==
    /\ executions' = [executions EXCEPT ![e].pc = "done"]
    /\ workerStep' = [job |-> x.id, processed |-> TRUE, newest |-> NewestJob]
    /\ toMain' = IF processor.cancelled THEN toMain
                 ELSE Append(toMain, [type |-> "SUCCESS", id |-> x.id, by |-> x.id,
                                      data |-> [type |-> "zip", files |-> x.members]])

\* Execution e goes on after zip.loadAsync or zipEntry.async.
WorkerContinue(e) ==
    /\ executions[e].pc = "await"
    /\ IF executions[e].next <= executions[e].members
       THEN NextMember(e, executions[e])
       ELSE Finish(e, executions[e])
    /\ UNCHANGED <<fpState, currentJobId, promises, toWorker, processor, handled>>

\* The client's processFiles: the job ids are fresh.
processFiles(file) ==
    /\ currentJobId' = Len(promises) + 1
    /\ fpState' = [isProcessing |-> TRUE,
                   progress |-> [stage |-> "reading", progress |-> 0],
                   error |-> NoError, result |-> NoResult]
    /\ promises' = Append(promises, "pending")
    /\ toWorker' = Append(toWorker,
          [type |-> "PROCESS_FILES", id |-> Len(promises) + 1, file |-> file])
    /\ handled' = NothingHandled
    /\ workerStep' = NoStep
    /\ UNCHANGED <<toMain, processor, executions>>

cancelProcessing ==
    /\ toWorker' = IF currentJobId # NoJob
                   THEN Append(toWorker, [type |-> "CANCEL", id |-> currentJobId])
                   ELSE toWorker
    /\ handled' = NothingHandled
    /\ workerStep' = NoStep
    /\ UNCHANGED <<fpState, currentJobId, promises, toMain, processor, executions>>

reset ==
    /\ fpState' = IdleState
    /\ currentJobId' = NoJob
    /\ handled' = NothingHandled
    /\ workerStep' = NoStep
    /\ UNCHANGED <<promises, toWorker, toMain, processor, executions>>

\* The state after the client's onmessage applied msg.
StateAfter(st, msg) ==
    IF msg.type = "PROGRESS" THEN [st EXCEPT !.progress = msg.data]
    ELSE IF msg.type = "SUCCESS"
    THEN [st EXCEPT !.isProcessing = FALSE, !.result = msg.data,
                    !.progress = [stage |-> "complete", progress |-> 100]]
    ELSE IF msg.type = "ERROR"
    THEN [st EXCEPT !.isProcessing = FALSE, !.error = msg.data,
                    !.progress = NoProgress]
    ELSE [st EXCEPT !.isProcessing = FALSE, !.progress = NoProgress]

\* handleMessage of the processFiles call that made job j.
Settled(state, j, msg) ==
    IF state = "pending" /\ msg.id = j /\ msg.type = "SUCCESS" THEN "resolved"
    ELSE IF state = "pending" /\ msg.id = j /\ msg.type = "ERROR" THEN "rejected"
    ELSE state

\* The client takes the next message: onmessage and the handleMessage
\* listeners.
ClientOnMessage(msg) ==
    /\ toMain' = Tail(toMain)
    /\ promises' = [j \in 1..Len(promises) |-> Settled(promises[j], j, msg)]
    /\ IF msg.id # currentJobId
       THEN /\ handled' = [outcome |-> "discarded", type |-> msg.type, by |-> msg.by,
                           current |-> currentJobId]
            /\ UNCHANGED <<fpState, currentJobId>>
       ELSE /\ handled' = [outcome |-> "applied", type |-> msg.type, by |-> msg.by,
                           current |-> currentJobId]
            /\ fpState' = StateAfter(fpState, msg)
            /\ currentJobId' = IF msg.type = "PROGRESS" THEN currentJobId ELSE NoJob
    /\ workerStep' = NoStep
    /\ UNCHANGED <<toWorker, processor, executions>>

\* ------------------------------------------------------------------------
\* FileProcessor: the worker's pipeline from files to a result
\* ------------------------------------------------------------------------

\* Most files of one processFiles call.
MaxFiles == 2

\* Most entries of an archive.
MaxEntries == 3

\* The three worker scripts of the repository, named by where they are: the
\* FileProcessor in src/hooks/useStreamingSearch.ts, the one in
\* public/fileProcessor.worker.js and the one in part_006.
WorkerScripts == {"useStreamingSearch.ts", "fileProcessor.worker.js", "part_006"}

\* String.prototype.endsWith
endsWith(str, suffix) ==
    Len(str) >= Len(suffix) /\ SubSeq(str, Len(str) - Len(suffix) + 1, Len(str)) = suffix

EXT_ZIP == <<".", "z", "i", "p">>
EXT_GZ == <<".", "g", "z">>
EXT_GZIP == <<".", "g", "z", "i", "p">>
EXT_TAR == <<".", "t", "a", "r">>
EXT_TAR_GZ == <<".", "t", "a", "r", ".", "g", "z">>
EXT_TGZ == <<".", "t", "g", "z">>
EXT_7Z == <<".", "7", "z">>
EXT_RAR == <<".", "r", "a", "r">>
EXT_BZ2 == <<".", "b", "z", "2">>

\* compressedExtensions of each script.
compressedExtensions(worker) ==
    IF worker = "useStreamingSearch.ts"
    THEN {EXT_ZIP, EXT_GZ, EXT_GZIP, EXT_TAR, EXT_TAR_GZ, EXT_TGZ}
    ELSE IF worker = "fileProcessor.worker.js"
    THEN {EXT_GZ, EXT_TAR_GZ, EXT_TAR, EXT_TGZ}
    ELSE {EXT_GZ, EXT_TAR_GZ, EXT_TAR, EXT_TGZ, EXT_ZIP, EXT_7Z, EXT_RAR, EXT_BZ2}

isCompressedFile(worker, fileName) ==
    \E ext \in compressedExtensions(worker) : endsWith(ToLower(fileName), ext)

\* view[k] of new Uint8Array(arrayBuffer.slice(0, n)): the byte at offset k, -1
\* (undefined) beyond the end of the buffer.
ByteAt(arrayBuffer, k) ==
    IF k < Len(arrayBuffer.head) THEN arrayBuffer.head[k + 1] ELSE -1

\* The format by the file's extension, "none" when no extension decides.
FormatByExtension(worker, lowerName) ==
    IF worker = "useStreamingSearch.ts"
    THEN IF endsWith(lowerName, EXT_ZIP) THEN "zip"
         ELSE IF endsWith(lowerName, EXT_TAR_GZ) \/ endsWith(lowerName, EXT_TGZ)
         THEN "tar.gz"
         ELSE IF endsWith(lowerName, EXT_GZ) \/ endsWith(lowerName, EXT_GZIP) THEN "gzip"
         ELSE IF endsWith(lowerName, EXT_TAR) THEN "tar"
         ELSE "none"
    ELSE IF endsWith(lowerName, EXT_TAR_GZ) \/ endsWith(lowerName, EXT_TGZ) THEN "tar.gz"
         ELSE IF endsWith(lowerName, EXT_TAR) THEN "tar"
         ELSE IF endsWith(lowerName, EXT_GZ) THEN "gzip"
         ELSE IF endsWith(lowerName, EXT_ZIP) THEN "zip"
         ELSE IF endsWith(lowerName, EXT_7Z) THEN "7z"
         ELSE IF endsWith(lowerName, EXT_RAR) THEN "rar"
         ELSE IF endsWith(lowerName, EXT_BZ2) THEN "bz2"
         ELSE "none"

\* The format by the magic bytes.
FormatByMagic(worker, arrayBuffer) ==
    IF ByteAt(arrayBuffer, 0) = 80 /\ ByteAt(arrayBuffer, 1) = 75 THEN "zip"
    ELSE IF ByteAt(arrayBuffer, 0) = 31 /\ ByteAt(arrayBuffer, 1) = 139 THEN "gzip"
    ELSE IF worker = "useStreamingSearch.ts"
    THEN IF arrayBuffer.byteLength > 262 /\ arrayBuffer.at257 = <<"u", "s", "t", "a", "r">>
         THEN "tar"
         ELSE "unknown"
    ELSE IF /\ ByteAt(arrayBuffer, 0) = 55 /\ ByteAt(arrayBuffer, 1) = 122
            /\ ByteAt(arrayBuffer, 2) = 188 /\ ByteAt(arrayBuffer, 3) = 175
         THEN "7z"
         ELSE IF /\ ByteAt(arrayBuffer, 0) = 82 /\ ByteAt(arrayBuffer, 1) = 97
                 /\ ByteAt(arrayBuffer, 2) = 114 /\ ByteAt(arrayBuffer, 3) = 33
         THEN "rar"
         ELSE "unknown"

\* detectCompressionFormat of useStreamingSearch.ts and of part_006.
detectCompressionFormat(worker, fileName, arrayBuffer) ==
    IF FormatByExtension(worker, ToLower(fileName)) # "none"
    THEN FormatByExtension(worker, ToLower(fileName))
    ELSE FormatByMagic(worker, arrayBuffer)

\* The codecs are external: what they do depends on what the buffer holds
\* (buffer.kind): "text" is plain text, "gzip" a gzip stream of the text
\* buffer.inner, "tar", "targz" and "zip" are archives of buffer.entries,
\* "corrupt" is bytes no codec accepts and "unreadable" a buffer that cannot be
\* read as text either. buffer.text is the text its raw bytes decode to.

\* new TextDecoder().decode(buffer), FileReader.readAsText(file)
TextDecode(buffer) == [threw |-> buffer.kind = "unreadable", text |-> buffer.text]

\* pako.inflate(compressed)
Inflate(buffer) ==
    [threw |-> buffer.kind \notin {"gzip", "targz"}, text |-> buffer.inner]

\* The type untar reports for an entry: the type flag of the tar header ("0"
\* for a regular file, "5" for a directory) or a word for it.
ReportedType(untarStyle, entry) ==
    IF untarStyle = "typeflag" THEN (IF entry.regular THEN "0" ELSE "5")
    ELSE (IF entry.regular THEN "file" ELSE "directory")

\* What a call returned, or that it threw.
Returned(content, type, isMultiFile, files) ==
    [threw |-> FALSE, content |-> content, type |-> type, isMultiFile |-> isMultiFile,
     files |-> files, fallback |-> FALSE, path |-> "none"]

Threw ==
    [threw |-> TRUE, content |-> << >>, type |-> "none", isMultiFile |-> FALSE,
     files |-> << >>, fallback |-> FALSE, path |-> "none"]

\* processRegularFile
processRegularFile(buffer) ==
    IF TextDecode(buffer).threw THEN Threw
    ELSE Returned(TextDecode(buffer).text, "text", FALSE, << >>)

\* Whether the loop over an archive's entries takes the entry.
TakesEntry(worker, untarStyle, format, entry) ==
    IF format = "zip" THEN entry.regular
    ELSE IF worker = "fileProcessor.worker.js"
    THEN ReportedType(untarStyle, entry) \in {"0", ""}
    ELSE ReportedType(untarStyle, entry) = "file"

\* files / extractedFiles: an entry of the result for each entry taken.
RECURSIVE ExtractedFiles(_, _, _, _)
ExtractedFiles(worker, untarStyle, format, entries) ==
    IF Len(entries) = 0 THEN << >>
    ELSE (IF TakesEntry(worker, untarStyle, format, entries[1])
          THEN <<[name |-> entries[1].name, content |-> entries[1].content,
                  type |-> "text"]>>
          ELSE << >>)
         \o ExtractedFiles(worker, untarStyle, format, Tail(entries))

\* `\n=== ${name} ===\n${content}\n` of useStreamingSearch.ts and
\* `\n\n=== ${f.name} ===\n${f.content}` of fileProcessor.worker.js.
Section(worker, name, content) ==
    IF worker = "useStreamingSearch.ts"
    THEN <<NL, "=== ">> \o name \o <<" ===", NL>> \o content \o <<NL>>
    ELSE <<NL, NL, "=== ">> \o name \o <<" ===", NL>> \o content

RECURSIVE Sections(_, _)
Sections(worker, files) ==
    IF Len(files) = 0 THEN << >>
    ELSE (IF files[1].type = "error" THEN << >>
          ELSE Section(worker, files[1].name, files[1].content))
         \o Sections(worker, Tail(files))

\* combinedContent += (combinedContent ? '\n' : '') + result.content
RECURSIVE Appended(_, _)
Appended(combinedContent, files) ==
    IF Len(files) = 0 THEN combinedContent
    ELSE Appended(combinedContent \o (IF Len(combinedContent) > 0 THEN <<NL>> ELSE << >>)
                      \o files[1].content,
                  Tail(files))

\* The combined content of an archive's files.
CombinedContent(worker, files) ==
    IF worker = "useStreamingSearch.ts" THEN Trim(Sections(worker, files))
    ELSE IF worker = "fileProcessor.worker.js" THEN Sections(worker, files)
    ELSE Join([k \in 1..Len(files) |-> files[k].content])

\* What a decompress function returns for the files it extracted.
ArchiveResult(worker, type, files) ==
    IF worker = "fileProcessor.worker.js"
    THEN Returned(CombinedContent(worker, files), "tar", TRUE, files)
    ELSE IF Len(files) = 0 THEN Threw
    ELSE IF Len(files) = 1 THEN Returned(files[1].content, type, FALSE, << >>)
    ELSE Returned(CombinedContent(worker, files), type, TRUE, files)

\* decompressZip, decompressGzip, decompressTar, decompressTarGz
Decompress(worker, untarStyle, format, buffer) ==
    IF format = "gzip"
    THEN IF Inflate(buffer).threw THEN Threw
         ELSE Returned(Inflate(buffer).text, "gzip", FALSE, << >>)
    ELSE IF \/ format = "zip" /\ buffer.kind = "zip"
            \/ format = "tar" /\ buffer.kind = "tar"
            \/ format = "tar.gz" /\ buffer.kind = "targz"
    THEN ArchiveResult(worker, format,
                       ExtractedFiles(worker, untarStyle, format, buffer.entries))
    ELSE Threw

\* The formats a script has a decompress function for.
Supported(worker) ==
    IF worker = "fileProcessor.worker.js" THEN {"gzip", "tar", "tar.gz"}
    ELSE {"zip", "gzip", "tar", "tar.gz"}

\* The format decompressFile goes by: fileProcessor.worker.js looks at the
\* extension only.
FormatOf(worker, file) ==
    IF worker = "fileProcessor.worker.js"
    THEN FormatByExtension(worker, ToLower(file.name))
    ELSE detectCompressionFormat(worker, file.name, file.buffer)

\* What became of a failed decompression: useStreamingSearch.ts goes on to
\* processRegularFile, the other scripts throw.
AfterFailure(worker, buffer) ==
    IF worker = "useStreamingSearch.ts"
    THEN [processRegularFile(buffer) EXCEPT !.fallback = TRUE]
    ELSE Threw

decompressFile(worker, untarStyle, file) ==
    IF FormatOf(worker, file) \in Supported(worker)
    THEN IF Decompress(worker, untarStyle, FormatOf(worker, file), file.buffer).threw
         THEN AfterFailure(worker, file.buffer)
         ELSE Decompress(worker, untarStyle, FormatOf(worker, file), file.buffer)
    ELSE IF worker = "useStreamingSearch.ts" THEN processRegularFile(file.buffer)
    ELSE Threw

processSingleFile(worker, untarStyle, file) ==
    IF isCompressedFile(worker, file.name)
    THEN [decompressFile(worker, untarStyle, file) EXCEPT !.path = "decompressFile"]
    ELSE [processRegularFile(file.buffer) EXCEPT !.path = "processRegularFile"]

ERROR_CONTENT == <<"Error processing file: ">>

\* results of processMultipleFiles: in useStreamingSearch.ts a file that fails
\* gives an entry of type 'error'.
FileResults(worker, untarStyle, files) ==
    [k \in 1..Len(files) |->
        IF processSingleFile(worker, untarStyle, files[k]).threw
        THEN [name |-> files[k].name, content |-> ERROR_CONTENT, type |-> "error"]
        ELSE [name |-> files[k].name,
              content |-> processSingleFile(worker, untarStyle, files[k]).content,
              type |-> processSingleFile(worker, untarStyle, files[k]).type]]

processMultipleFiles(worker, untarStyle, files) ==
    IF worker = "useStreamingSearch.ts"
    THEN Returned(Trim(Sections(worker, FileResults(worker, untarStyle, files))),
                  "multi-file", TRUE, FileResults(worker, untarStyle, files))
    ELSE IF \E k \in 1..Len(files) : processSingleFile(worker, untarStyle, files[k]).threw
    THEN Threw
    ELSE Returned(Appended(<< >>, FileResults(worker, untarStyle, files)),
                  "multi-file", FALSE, FileResults(worker, untarStyle, files))

\* FileProcessor.processFiles
WorkerProcessFiles(worker, untarStyle, files) ==
    IF Len(files) = 1 THEN processSingleFile(worker, untarStyle, files[1])
    ELSE processMultipleFiles(worker, untarStyle, files)

\* File names: plain ones and one for each archive extension.
FileNames ==
    {<<"f">>, <<"f", ".", "l", "o", "g">>,
     <<"f">> \o EXT_ZIP, <<"f">> \o EXT_GZ, <<"f", ".", "G", "Z">>,
     <<"f">> \o EXT_GZIP, <<"f">> \o EXT_TAR, <<"f">> \o EXT_TGZ,
     <<"f">> \o EXT_TAR_GZ}

\* Archive entries: two regular files and a directory.
ArchiveEntries ==
    {[name |-> <<"x">>, regular |-> TRUE, content |-> <<"h">>],
     [name |-> <<"y">>, regular |-> TRUE, content |-> <<"w", NL>>],
     [name |-> <<"d">>, regular |-> FALSE, content |-> << >>]}

EntryLists == UNION {[1..n -> ArchiveEntries] : n \in 1..MaxEntries}

\* A buffer of the kind, with the header a file of that kind has.
Buffer(kind, head, at257, entries) ==
    [kind |-> kind, head |-> head, byteLength |-> IF kind = "tar" THEN 1024 ELSE Len(head),
     at257 |-> at257, text |-> IF kind = "text" THEN <<"t">> ELSE <<"#">>,
     inner |-> IF kind = "gzip" THEN <<"t">> ELSE <<"#">>, entries |-> entries]

Buffers ==
    {Buffer("text", <<116>>, << >>, << >>),
     Buffer("gzip", <<31, 139>>, << >>, << >>),
     Buffer("corrupt", <<0, 0>>, << >>, << >>),
     Buffer("unreadable", << >>, << >>, << >>)}
    \cup {Buffer("zip", <<80, 75>>, << >>, es) : es \in EntryLists}
    \cup {Buffer("targz", <<31, 139>>, << >>, es) : es \in EntryLists}
    \cup {Buffer("tar", <<120>>, <<"u", "s", "t", "a", "r">>, es) : es \in EntryLists}

PipelineFiles == {[name |-> n, buffer |-> b] : n \in FileNames, b \in Buffers}

\* The files of the jobs of several files: a text file, a tar.gz archive of two
\* entries under its own name, and two files that fail.
BatchFiles ==
    {[name |-> <<"f", ".", "l", "o", "g">>, buffer |-> Buffer("text", <<116>>, << >>, << >>)],
     [name |-> <<"g", ".", "l", "o", "g">>,
      buffer |-> Buffer("unreadable", << >>, << >>, << >>)],
     [name |-> <<"f">> \o EXT_TGZ, buffer |-> Buffer("corrupt", <<0, 0>>, << >>, << >>)]}
    \cup {[name |-> <<"f">> \o EXT_TAR_GZ, buffer |-> Buffer("targz", <<31, 139>>, << >>, es)] :
              es \in {es \in EntryLists : Len(es) = 2 /\ es[1] # es[2]}}

PipelineJobs ==
    {<<f>> : f \in PipelineFiles} \cup UNION {[1..n -> BatchFiles] : n \in 2..MaxFiles}

\* postProgress in a job that is not cancelled: the PROGRESS message posted, its percent clamped to 0..100
\* percent is progress / den.
Posted(stage, progress) ==
    <<[stage |-> stage,
       progress |-> IF progress < 0 THEN 0 ELSE IF progress > 100 THEN 100 ELSE progress,
       den |-> 1]>>

\* The messages of processRegularFile.
RegularFileProgress(buffer) ==
    Posted("reading", 70)
    \o (IF TextDecode(buffer).threw THEN << >> ELSE Posted("reading", 90))

\* The messages of a loop over n entries, from entry i on (counted from 0):
\* base + Math.round((i / n) * span).
RECURSIVE ExtractingProgress(_, _, _, _)
ExtractingProgress(base, span, i, n) ==
    IF i >= n THEN << >>
    ELSE Posted("extracting", base + Round(i * span, n))
         \o ExtractingProgress(base, span, i + 1, n)

\* The messages of decompressZip, decompressGzip, decompressTar and
\* decompressTarGz, up to the return or the throw.
DecompressProgress(format, buffer) ==
    IF format = "zip"
    THEN Posted("decompressing", 40)
         \o (IF buffer.kind = "zip"
             THEN ExtractingProgress(60, 30, 0,
                      Cardinality({k \in 1..Len(buffer.entries) : buffer.entries[k].regular}))
             ELSE << >>)
    ELSE IF format = "gzip" THEN Posted("decompressing", 50)
    ELSE IF format = "tar"
    THEN Posted("decompressing", 50)
         \o (IF buffer.kind = "tar"
             THEN ExtractingProgress(60, 30, 0, Len(buffer.entries)) ELSE << >>)
    ELSE Posted("decompressing", 40)
         \o (IF Inflate(buffer).threw THEN << >>
             ELSE Posted("extracting", 60)
                  \o (IF buffer.kind = "targz"
                      THEN ExtractingProgress(70, 20, 0, Len(buffer.entries))
                      ELSE << >>))

\* The messages of decompressFile of useStreamingSearch.ts.
DecompressFileProgress(untarStyle, file) ==
    Posted("decompressing", 20)
    \o (IF FormatOf("useStreamingSearch.ts", file) \in Supported("useStreamingSearch.ts")
        THEN DecompressProgress(FormatOf("useStreamingSearch.ts", file), file.buffer)
             \o (IF Decompress("useStreamingSearch.ts", untarStyle,
                               FormatOf("useStreamingSearch.ts", file), file.buffer).threw
                 THEN RegularFileProgress(file.buffer) ELSE << >>)
        ELSE RegularFileProgress(file.buffer))

\* The messages of processSingleFile of useStreamingSearch.ts.
SingleFileProgress(untarStyle, file) ==
    Posted("reading", 10)
    \o (IF isCompressedFile("useStreamingSearch.ts", file.name)
        THEN DecompressFileProgress(untarStyle, file)
        ELSE RegularFileProgress(file.buffer))

\* The messages of processMultipleFiles of useStreamingSearch.ts from file i
\* on (counted from 0).
RECURSIVE MultipleFilesProgress(_, _, _)
MultipleFilesProgress(untarStyle, files, i) ==
    IF i >= Len(files) THEN << >>
    ELSE Posted("extracting", Round(i * 100, Len(files)))
         \o SingleFileProgress(untarStyle, files[i + 1])
         \o MultipleFilesProgress(untarStyle, files, i + 1)

\* onProgress of fileProcessor.worker.js for one regular file: processRegularFile
\* reports 100 when the file is read; for the only file of a job the percent is
\* progress itself, for file i of n (counted from 0) it is
\* fileProgress + progress / n with fileProgress = (i / n) * 100.
WorkerFileProgress(buffer, i, n) ==
    IF TextDecode(buffer).threw THEN << >>
    ELSE <<[stage |-> "reading", progress |-> i * 100 + 100, den |-> n]>>

\* The messages of processMultipleFiles of fileProcessor.worker.js up to the
\* return or the throw.
RECURSIVE WorkerFilesProgress(_, _)
WorkerFilesProgress(files, i) ==
    IF i >= Len(files) THEN << >>
    ELSE <<[stage |-> "reading", progress |-> i * 100, den |-> Len(files)]>>
         \o WorkerFileProgress(files[i + 1].buffer, i, Len(files))
         \o (IF TextDecode(files[i + 1].buffer).threw THEN << >>
             ELSE WorkerFilesProgress(files, i + 1))

\* The PROGRESS messages of one processFiles call.
ProgressMessages(worker, untarStyle, files) ==
    IF worker = "useStreamingSearch.ts"
    THEN Posted("reading", 0)
         \o (IF Len(files) = 1 THEN SingleFileProgress(untarStyle, files[1])
             ELSE MultipleFilesProgress(untarStyle, files, 0))
    ELSE IF Len(files) = 1 THEN WorkerFileProgress(files[1].buffer, 0, 1)
    ELSE WorkerFilesProgress(files, 0)

\* The jobs whose progress is followed: every job for useStreamingSearch.ts,
\* the jobs of regular files for fileProcessor.worker.js.
RegularFiles == {f \in BatchFiles : ~isCompressedFile("fileProcessor.worker.js", f.name)}

ProgressInit ==
    /\ \/ /\ pWorker = "useStreamingSearch.ts"
          /\ pUntar \in {"typeflag", "word"}
          /\ pFiles \in PipelineJobs
       \/ /\ pWorker = "fileProcessor.worker.js"
          /\ pUntar = "typeflag"
          /\ pFiles \in UNION {[1..n -> RegularFiles] : n \in 1..MaxFiles}
    /\ pOut = [done |-> FALSE]

\* One processFiles call of the worker, with the messages it posted.
RunProgress ==
    /\ ~pOut.done
    /\ pOut' = [done |-> TRUE, messages |-> ProgressMessages(pWorker, pUntar, pFiles)]
    /\ UNCHANGED <<pWorker, pUntar, pFiles>>

\* The names and buffers the detector is tried on: the extensions in lower,
\* upper and mixed case, and buffers of every magic number, shorter than the
\* header or with the bytes at offset 257 at, before and after the end.
DetectNames ==
    FileNames
    \cup {<<"f", ".", "T", "G", "Z">>, <<"f", ".", "T", "a", "r", ".", "G", "z">>,
          <<"f", ".", "T", "A", "R">>, <<"f", ".", "t", "a", "r", ".", "l", "o", "g">>}

Headers ==
    {<<80, 75, 3, 4>>, <<31, 139, 8, 0>>, <<116, 120, 116, 10>>,
     <<55, 122, 188, 175>>, <<82, 97, 114, 33>>}

DetectBuffers ==
    {[head |-> h, byteLength |-> Len(h), at257 |-> << >>] :
        h \in Headers \cup {<< >>, <<80>>, <<31>>, <<80, 75>>}}
    \cup {[head |-> h, byteLength |-> 261, at257 |-> <<"u", "s", "t", "a">>] : h \in Headers}
    \cup {[head |-> h, byteLength |-> n, at257 |-> <<"u", "s", "t", "a", "r">>] :
              h \in Headers, n \in {262, 263}}
    \cup {[head |-> h, byteLength |-> 263, at257 |-> <<"x", "s", "t", "a", "r">>] :
              h \in Headers}

DetectInit ==
    /\ pWorker \in {"useStreamingSearch.ts", "part_006"}
    /\ pUntar = "none"
    /\ pFiles \in {<<[name |-> n, buffer |-> b]>> : n \in DetectNames, b \in DetectBuffers}
    /\ pOut = [done |-> FALSE]

\* One detectCompressionFormat call.
RunDetect ==
    /\ ~pOut.done
    /\ pOut' = [done |-> TRUE,
                format |-> detectCompressionFormat(pWorker, pFiles[1].name,
                                                   pFiles[1].buffer)]
    /\ UNCHANGED <<pWorker, pUntar, pFiles>>

PipelineInit ==
    /\ pWorker \in WorkerScripts
    /\ pUntar \in {"typeflag", "word"}
    /\ pFiles \in PipelineJobs
    /\ pOut = [done |-> FALSE]

\* One processFiles call of the worker, run to its end.
RunProcessFiles ==
    /\ ~pOut.done
    /\ pOut' = [done |-> TRUE, result |-> WorkerProcessFiles(pWorker, pUntar, pFiles)]
    /\ UNCHANGED <<pWorker, pUntar, pFiles>>

\* ------------------------------------------------------------------------
\* useChunkedUpload: a large file read chunk by chunk
\* ------------------------------------------------------------------------

\* Most uploadLargeFile calls in one behaviour.
MaxUploads == 2

\* Most chunks of a file: Math.ceil(file.size / chunkSize).
MaxChunks == 2

\* uCalls[c] is the c-th uploadLargeFile call: the chunk it is at, where it
\* stands (reading the chunk, waiting for the timeout after it, returned), how
\* its promise ended, and two histories: the chunk whose read fails (0 for
\* none) and whether cancelUpload was called while it was pending.
UploadCall(totalChunks, failAt) ==
    [totalChunks |-> totalChunks, chunkIndex |-> 0, at |-> "reading",
     outcome |-> "pending", message |-> "null", failAt |-> failAt, cancelled |-> FALSE]

\* setState at the head of the loop body.
ChunkBegun(prev, chunkIndex, totalChunks) ==
    IF prev.progress.stage = "null" THEN prev
    ELSE [prev EXCEPT !.progress.currentChunk = chunkIndex + 1,
                      !.progress.progress = Round((chunkIndex + 1) * 100, totalChunks),
                      !.progress.stage = "processing"]

\* setState after the chunk is read.
ChunkProcessed(prev, chunkIndex) ==
    IF prev.progress.stage = "null" THEN prev
    ELSE [prev EXCEPT !.progress.processedChunks = chunkIndex + 1]

\* setState after the loop.
UploadCompleted(prev) ==
    IF prev.progress.stage = "null" THEN [prev EXCEPT !.isUploading = FALSE]
    ELSE [prev EXCEPT !.progress.stage = "complete", !.isUploading = FALSE]

\* The catch block: the error's message goes to the state and the error is
\* thrown again.
UploadCaught(c, message) ==
    /\ uState' = [uState EXCEPT !.isUploading = FALSE, !.error = message]
    /\ uCalls' = [uCalls EXCEPT ![c].at = "returned", ![c].outcome = "rejected",
                                ![c].message = message]
    /\ UNCHANGED uController

\* uploadLargeFile up to its first await.
uploadLargeFile(totalChunks, failAt) ==
    /\ Len(uCalls) < MaxUploads
    /\ uController' = [owner |-> Len(uCalls) + 1, aborted |-> FALSE]
    /\ LET started ==
               [isUploading |-> TRUE,
                progress |-> [totalChunks |-> totalChunks, processedChunks |-> 0,
                              currentChunk |-> 0, progress |-> 0, stage |-> "chunking"],
                error |-> "null"]
       IN  IF totalChunks = 0
           THEN /\ uState' = UploadCompleted(started)
                /\ uCalls' = Append(uCalls, [UploadCall(totalChunks, failAt) EXCEPT
                                                !.at = "returned", !.outcome = "resolved"])
           ELSE /\ uState' = ChunkBegun(started, 0, totalChunks)
                /\ uCalls' = Append(uCalls, UploadCall(totalChunks, failAt))

\* The FileReader of call c ends: onload or onerror.
ChunkRead(c) ==
    /\ uCalls[c].at = "reading"
    /\ IF uCalls[c].failAt = uCalls[c].chunkIndex + 1
       THEN UploadCaught(c, "Failed to read chunk")
       ELSE /\ uState' = ChunkProcessed(uState, uCalls[c].chunkIndex)
            /\ uCalls' = [uCalls EXCEPT ![c].at = "waiting"]
            /\ UNCHANGED uController

\* The timeout of call c ends: chunkIndex++, and either the loop ends or the
\* next turn runs up to its await; the check reads abortController.current.
ChunkTimeout(c) ==
    /\ uCalls[c].at = "waiting"
    /\ IF uCalls[c].chunkIndex + 1 < uCalls[c].totalChunks
       THEN IF uController.aborted
            THEN UploadCaught(c, "Upload cancelled")
            ELSE /\ uState' = ChunkBegun(uState, uCalls[c].chunkIndex + 1,
                                         uCalls[c].totalChunks)
                 /\ uCalls' = [uCalls EXCEPT ![c].chunkIndex = @ + 1, ![c].at = "reading"]
                 /\ UNCHANGED uController
       ELSE /\ uState' = UploadCompleted(uState)
            /\ uCalls' = [uCalls EXCEPT ![c].at = "returned", ![c].outcome = "resolved"]
            /\ UNCHANGED uController

cancelUpload ==
    /\ uController' = IF uController.owner = 0 THEN uController
                      ELSE [uController EXCEPT !.aborted = TRUE]
    /\ uState' = [uState EXCEPT !.isUploading = FALSE, !.progress = [stage |-> "null"]]
    /\ uCalls' = [c \in 1..Len(uCalls) |->
                     IF uCalls[c].outcome = "pending"
                     THEN [uCalls[c] EXCEPT !.cancelled = TRUE] ELSE uCalls[c]]

\* ------------------------------------------------------------------------
\* LogSearchTool: from an upload to the corpus
\* ------------------------------------------------------------------------

\* Longest text of a file, a chunk or a paste.
MaxRawLen == 3

\* String.prototype.replace(/\r\n/g, '\n')
RECURSIVE ReplaceCRLF(_)
ReplaceCRLF(t) ==
    IF Len(t) = 0 THEN t
    ELSE IF Len(t) >= 2 /\ t[1] = CR /\ t[2] = NL
    THEN <<NL>> \o ReplaceCRLF(SubSeq(t, 3, Len(t)))
    ELSE <<t[1]>> \o ReplaceCRLF(Tail(t))

\* String.prototype.replace(/\r/g, '\n')
ReplaceCR(t) == [k \in 1..Len(t) |-> IF t[k] = CR THEN NL ELSE t[k]]

\* content.replace(/\r\n/g, '\n').replace(/\r/g, '\n')
Normalized(content) == ReplaceCR(ReplaceCRLF(content))

\* combinedContent += (combinedContent ? '\n' : '') + content, for a content
\* that is not empty.
RECURSIVE Combined(_, _)
Combined(combinedContent, contents) ==
    IF Len(contents) = 0 THEN combinedContent
    ELSE Combined(IF Len(contents[1]) = 0 THEN combinedContent
                  ELSE combinedContent
                       \o (IF Len(combinedContent) > 0 THEN <<NL>> ELSE << >>)
                       \o contents[1],
                  Tail(contents))

\* chunkContents.join('')
RECURSIVE Concatenated(_)
Concatenated(chunkContents) ==
    IF Len(chunkContents) = 0 THEN << >>
    ELSE chunkContents[1] \o Concatenated(Tail(chunkContents))

\* What the files, chunks and results hold: texts with line feeds and carriage
\* returns.
RawTexts == TextsOver({"a", CR, NL}, MaxRawLen)

\* The value of a textarea: its line breaks are line feeds.
TextareaValues == TextsOver({"a", NL}, MaxRawLen)

\* handleFileUpload of part_000 for one small plain file: reader.onload.
PlainFileLoaded(content) ==
    /\ hPath' = "plain"
    /\ hText' = <<content>>
    /\ logContent' = IF Len(content) = 0 THEN logContent ELSE Normalized(content)

\* handleFileUpload of part_000 for a compressed file: the content the worker
\* returned.
CompressedFileProcessed(decompressedContent) ==
    /\ hPath' = "archive"
    /\ hText' = <<decompressedContent>>
    /\ logContent' = Normalized(decompressedContent)

\* handleLargeFileUpload: the chunks read one after the other.
LargeFileRead(chunkContents) ==
    /\ hPath' = "large"
    /\ hText' = chunkContents
    /\ logContent' = Normalized(Concatenated(chunkContents))

\* handleMultipleFiles: the last reader has ended; contents in the order the
\* readers ended.
MultipleFilesRead(contents) ==
    /\ hPath' = "multiple"
    /\ hText' = contents
    /\ logContent' = Normalized(Combined(<< >>, contents))

\* The textarea's onChange.
TextareaChanged(value) ==
    /\ hPath' = "paste"
    /\ hText' = <<value>>
    /\ logContent' = value

\* handleFileUpload of LogSearchTool.tsx, lines 141-157: reader.onload.
FileLoaded(content) ==
    /\ hPath' = "LogSearchTool.tsx"
    /\ hText' = <<content>>
    /\ logContent' = content

\* ------------------------------------------------------------------------
\* The pattern collection of LogSearchTool and the groups of usePatternGroups
\* ------------------------------------------------------------------------

\* Most patterns of the collection, and of all groups together.
MaxCollection == 2

\* The last value of the clock, Date.now(), which starts at 1.
MaxNow == 2

\* A pattern made now: the id is Date.now().toString(), the color the index
\* into PATTERN_COLORS, a list of five.
NewSearchPattern(text, isRegex, count) ==
    [id |-> now, pattern |-> Trim(text), isRegex |-> isRegex, isEnabled |-> TRUE,
     color |-> count % 5]

addPattern(isRegexMode) ==
    IF Trim(newPattern) = << >>
    THEN UNCHANGED <<uiPatterns, newPattern>>
    ELSE /\ uiPatterns' = Append(uiPatterns,
                                 NewSearchPattern(newPattern, isRegexMode, Len(uiPatterns)))
         /\ newPattern' = << >>

removePattern(id) ==
    /\ uiPatterns' = SelectSeq(uiPatterns, LAMBDA p : p.id # id)
    /\ UNCHANGED newPattern

togglePattern(id) ==
    /\ uiPatterns' = [k \in 1..Len(uiPatterns) |->
                         IF uiPatterns[k].id = id
                         THEN [uiPatterns[k] EXCEPT !.isEnabled = ~@] ELSE uiPatterns[k]]
    /\ UNCHANGED newPattern

\* The patterns of all groups, one list.
RECURSIVE GroupedPatterns(_)
GroupedPatterns(gs) ==
    IF Len(gs) = 0 THEN << >> ELSE gs[1].patterns \o GroupedPatterns(Tail(gs))

\* createGroup of usePatternGroups.
createGroup ==
    patternGroups' = Append(patternGroups,
                            [id |-> now, patterns |-> << >>, isEnabled |-> TRUE,
                             logicalOperator |-> "AND"])

addPatternToGroup(groupId, pattern, isRegex) ==
    patternGroups' =
        [g \in 1..Len(patternGroups) |->
            IF patternGroups[g].id = groupId
            THEN [patternGroups[g] EXCEPT
                     !.patterns = Append(@, NewSearchPattern(pattern, isRegex, Len(@)))]
            ELSE patternGroups[g]]

\* LogSearchTool's logical groups, which hold pattern ids.
addLogicalGroup ==
    logicalGroups' = Append(logicalGroups,
                            [id |-> now, operator |-> "OR", patterns |-> << >>,
                             isEnabled |-> TRUE])

updateGroupOperator(groupId, operator) ==
    logicalGroups' = [g \in 1..Len(logicalGroups) |->
                         IF logicalGroups[g].id = groupId
                         THEN [logicalGroups[g] EXCEPT !.operator = operator]
                         ELSE logicalGroups[g]]

addPatternIdToGroup(groupId, patternId) ==
    logicalGroups' = [g \in 1..Len(logicalGroups) |->
                         IF logicalGroups[g].id = groupId
                         THEN [logicalGroups[g] EXCEPT !.patterns = Append(@, patternId)]
                         ELSE logicalGroups[g]]

removePatternIdFromGroup(groupId, patternId) ==
    logicalGroups' = [g \in 1..Len(logicalGroups) |->
                         IF logicalGroups[g].id = groupId
                         THEN [logicalGroups[g] EXCEPT
                                  !.patterns = SelectSeq(@, LAMBDA q : q # patternId)]
                         ELSE logicalGroups[g]]

\* The items of the group's Select: the patterns not yet in the group.
Selectable(group) ==
    {uiPatterns[k].id : k \in 1..Len(uiPatterns)} \ {group.patterns[k] : k \in 1..Len(group.patterns)}

\* The searchResults memo in logical mode, of the state as it is.
LogicalResults == searchResults(logContent, uiPatterns, logicalGroups, globalOperator)

\* ------------------------------------------------------------------------
\* Large files: split into chunks of bytes, each chunk read as text
\* ------------------------------------------------------------------------

\* Most bytes of a file.
MaxFileBytes == 4

\* The chunk size of 10 megabytes, scaled to the model's files.
CHUNK_BYTES == 2

\* The bytes of a file: the letter a, a line feed, and the two bytes of the
\* UTF-8 encoding of one character, a lead byte and its continuation byte.
LEAD == "C3"

CONTINUATION == "A9"

REPLACEMENT == "U+FFFD"

\* The UTF-8 decoding of readAsText and TextDecoder: a lead byte with its
\* continuation byte is one character, a byte that is not part of a
\* well-formed sequence is the replacement character.
RECURSIVE Utf8Decode(_)
Utf8Decode(bytes) ==
    IF Len(bytes) = 0 THEN << >>
    ELSE IF bytes[1] = LEAD
    THEN IF Len(bytes) >= 2 /\ bytes[2] = CONTINUATION
         THEN <<"e'">> \o Utf8Decode(SubSeq(bytes, 3, Len(bytes)))
         ELSE <<REPLACEMENT>> \o Utf8Decode(Tail(bytes))
    ELSE IF bytes[1] = CONTINUATION THEN <<REPLACEMENT>> \o Utf8Decode(Tail(bytes))
    ELSE <<bytes[1]>> \o Utf8Decode(Tail(bytes))

\* Blob.prototype.slice(start, end)
BlobSlice(file, start, end) ==
    SubSeq(file, start + 1, IF end < Len(file) THEN end ELSE Len(file))

\* splitFileIntoChunks: the chunks from offset on.
RECURSIVE splitFileIntoChunks(_, _, _)
splitFileIntoChunks(file, chunkSize, offset) ==
    IF offset < Len(file)
    THEN <<BlobSlice(file, offset, offset + chunkSize)>>
         \o splitFileIntoChunks(file, chunkSize, offset + chunkSize)
    ELSE << >>

\* The texts of the chunks, each read by a FileReader of its own.
ChunkContents(chunks) == [k \in 1..Len(chunks) |-> Utf8Decode(chunks[k])]

\* handleLargeFileUpload: the corpus it sets.
handleLargeFileUpload(file) ==
    /\ hPath' = "handleLargeFileUpload"
    /\ hText' = <<file>>
    /\ logContent' =
          Normalized(Concatenated(ChunkContents(splitFileIntoChunks(file, CHUNK_BYTES, 0))))
    /\ UNCHANGED pOut

\* The chunks of uploadLargeFile: Math.ceil(file.size / chunkSize) slices.
UploadChunks(file, chunkSize) ==
    [chunkIndex \in 0..(((Len(file) + chunkSize - 1) \div chunkSize) - 1) |->
        BlobSlice(file, chunkIndex * chunkSize, chunkIndex * chunkSize + chunkSize)]

\* The chunks as a sequence.
UploadChunkList(file, chunkSize) ==
    [k \in 1..((Len(file) + chunkSize - 1) \div chunkSize) |->
        UploadChunks(file, chunkSize)[k - 1]]

\* uploadLargeFile run to its end, no read failing and no cancel: the
\* processedContent it returns.
UploadedContent(file) ==
    /\ hPath' = "uploadLargeFile"
    /\ hText' = <<file>>
    /\ pOut' = [done |-> TRUE,
                content |-> Concatenated(ChunkContents(UploadChunkList(file, CHUNK_BYTES)))]
    /\ UNCHANGED logContent

FileBytes == TextsOver({"a", NL, LEAD, CONTINUATION}, MaxFileBytes)

\* ------------------------------------------------------------------------
\* Specifications
\* ------------------------------------------------------------------------

vars ==
    <<contentVars, matchVars, groupVars, searchVars, controllerVars, ingestVars,
      addedVars>>

\* What each specification leaves as constructed.
OtherThanContent ==
    <<matchVars, groupVars, searchVars, controllerVars, ingestVars, addedVars>>

OtherThanMatch == <<contentVars, searchVars, controllerVars, ingestVars, addedVars>>

OtherThanLine == <<OtherThanMatch, groupVars>>

OtherThanSearch ==
    <<contentVars, matchVars, groupVars, controllerVars, ingestVars, addedVars>>

OtherThanController == <<contentVars, matchVars, groupVars, ingestVars, addedVars>>

OtherThanIngest ==
    <<contentVars, matchVars, groupVars, searchVars, controllerVars, addedVars>>

\* The components that the specifications of the file pipeline, the upload
\* handler, the chunked upload and the pattern collection leave as constructed.
Components ==
    <<contentVars, matchVars, searchVars, controllerVars, ingestVars>>

ComponentsIdle ==
    ContentIdle /\ MatchIdle /\ SearchInit /\ ControllerIdle /\ IngestInit

\* The content store alone.
InitContent == ContentInit /\ MatchIdle /\ SearchInit /\ ControllerIdle /\ IngestIdle

SetContent == (\E t \in ContentTexts : setContent(t)) /\ UNCHANGED OtherThanContent

LoadMore == loadMore /\ UNCHANGED OtherThanContent

ClearContent == clearContent /\ UNCHANGED OtherThanContent

UpdateMaxLines ==
    (\E n \in 1..MaxLinesArg : updateMaxLines(n)) /\ UNCHANGED OtherThanContent

NextContent == SetContent \/ LoadMore \/ ClearContent \/ UpdateMaxLines

SpecContent == InitContent /\ [][NextContent]_vars

\* The evaluation of one line.
InitMatch ==
    MatchInit /\ GroupsIdle /\ ContentIdle /\ SearchInit /\ ControllerIdle /\ IngestIdle

Evaluate == EvaluateLine /\ UNCHANGED OtherThanLine

NextMatch == Evaluate

SpecMatch == InitMatch /\ [][NextMatch]_vars

\* The evaluation of one line in simple mode.
InitSimple ==
    SimpleInit /\ GroupsIdle /\ ContentIdle /\ SearchInit /\ ControllerIdle /\ IngestIdle

EvaluateSimple == EvaluateSimpleLine /\ UNCHANGED OtherThanLine

NextSimple == EvaluateSimple

SpecSimple == InitSimple /\ [][NextSimple]_vars

\* The search results of the logical mode.
InitGrouped == GroupedInit /\ ContentIdle /\ SearchInit /\ ControllerIdle /\ IngestIdle

ComputeResults == ComputeSearchResults /\ UNCHANGED OtherThanMatch

NextGrouped == ComputeResults

SpecGrouped == InitGrouped /\ [][NextGrouped]_vars

\* The search scheduler alone: the hook's three operations and the
\* continuation of each suspended run.
InitSearch == SearchInit /\ ContentIdle /\ MatchIdle /\ ControllerIdle /\ IngestIdle

SearchInChunks ==
    /\ ~frozen
    /\ Len(runs) < MaxRuns
    /\ \E content \in SearchContents, patterns \in SearchPatternLists :
          searchInChunks(content, patterns, DEFAULT_CHUNK_SIZE)
    /\ UNCHANGED OtherThanSearch

ResumeRun ==
    /\ ~frozen
    /\ \E r \in 1..Len(runs) : Resume(r)
    /\ UNCHANGED OtherThanSearch

CancelSearch == ~frozen /\ cancelSearch /\ UNCHANGED OtherThanSearch

ClearResults == ~frozen /\ clearResults /\ UNCHANGED OtherThanSearch

NextSearch == SearchInChunks \/ ResumeRun \/ CancelSearch \/ ClearResults

SpecSearch == InitSearch /\ [][NextSearch]_vars

\* The search scheduler with pattern lists that hold a regular expression
\* that does not compile.
SearchWithInvalidRegex ==
    /\ ~frozen
    /\ Len(runs) < MaxRuns
    /\ \E content \in SearchContents, patterns \in InvalidRegexPatternLists :
          searchInChunks(content, patterns, DEFAULT_CHUNK_SIZE)
    /\ UNCHANGED OtherThanSearch

NextInvalidRegex == SearchWithInvalidRegex \/ ResumeRun \/ CancelSearch \/ ClearResults

SpecInvalidRegex == InitSearch /\ [][NextInvalidRegex]_vars

\* The search scheduler with pattern lists of one regular expression.
SearchWithRegex ==
    /\ ~frozen
    /\ Len(runs) < MaxRuns
    /\ \E content \in SearchContents, patterns \in RegexPatternLists :
          searchInChunks(content, patterns, DEFAULT_CHUNK_SIZE)
    /\ UNCHANGED OtherThanSearch

NextRegexSearch == SearchWithRegex \/ ResumeRun \/ CancelSearch \/ ClearResults

SpecRegexSearch == InitSearch /\ [][NextRegexSearch]_vars

\* The controller over the scheduler: calls, the clock, the timeout and the
\* continuation of the runs it started.
InitController ==
    ControllerInit /\ SearchInit /\ ContentIdle /\ MatchIdle /\ IngestIdle

TriggerSearch ==
    /\ ~frozen
    /\ lastCall.no < MaxCalls
    /\ \E c \in TriggerSearchCalls :
          triggerSearch(c.content, c.patterns, c.force, c.showWarning)
    /\ UNCHANGED OtherThanController

ForceSearch ==
    /\ ~frozen
    /\ lastCall.no < MaxCalls
    /\ \E c \in ForceSearchCalls : forceSearch(c.content, c.patterns)
    /\ UNCHANGED OtherThanController

TimerFiresNow == ~frozen /\ TimerFires /\ UNCHANGED OtherThanController

EnableSearch ==
    /\ ~frozen
    /\ \E enabled \in BOOLEAN : enableSearch(enabled)
    /\ UNCHANGED OtherThanController

ClearSearch == ~frozen /\ clearSearch /\ UNCHANGED OtherThanController

ResumeStarted ==
    /\ ~frozen
    /\ \E r \in 1..Len(runs) : Resume(r)
    /\ UNCHANGED <<OtherThanController, controllerVars>>

TimePasses == ~frozen /\ Tick /\ UNCHANGED OtherThanController

NextController ==
    \/ TriggerSearch \/ ForceSearch \/ TimerFiresNow \/ EnableSearch
    \/ ClearSearch \/ ResumeStarted \/ TimePasses

SpecController == InitController /\ [][NextController]_vars

\* The ingestion client and its worker, with the messages between them. The
\* worker's steps and the client's taking of a message posted earlier do not
\* affect each other, so the behaviours are explored in one order of the two:
\* the client takes the posted messages before the worker's next step. The
\* caller's own calls come at any point between the messages.
InitIngest ==
    IngestInit /\ AddedIdle /\ ContentIdle /\ MatchIdle /\ SearchInit /\ ControllerIdle

ProcessFiles ==
    /\ Len(promises) < MaxJobs
    /\ \E file \in FileInputs : processFiles(file)
    /\ UNCHANGED OtherThanIngest

\* The caller cancels a job at most once.
CancelProcessing ==
    /\ currentJobId # NoJob
    /\ \A k \in 1..Len(toWorker) : toWorker[k].type # "CANCEL"
    /\ \A k \in 1..Len(toMain) : toMain[k].type # "CANCELLED"
    /\ cancelProcessing
    /\ UNCHANGED OtherThanIngest

\* reset() on a state that has left the initial one.
Reset == fpState # IdleState /\ reset /\ UNCHANGED OtherThanIngest

WorkerTakesMessage ==
    toMain = << >> /\ WorkerOnMessage /\ UNCHANGED OtherThanIngest

WorkerGoesOn ==
    /\ toMain = << >>
    /\ \E e \in 1..Len(executions) : WorkerContinue(e)
    /\ UNCHANGED OtherThanIngest

ClientTakesMessage ==
    /\ Len(toMain) > 0
    /\ ClientOnMessage(Head(toMain))
    /\ UNCHANGED OtherThanIngest

NextIngest ==
    \/ ProcessFiles \/ CancelProcessing \/ Reset
    \/ WorkerTakesMessage \/ WorkerGoesOn \/ ClientTakesMessage

SpecIngest == InitIngest /\ [][NextIngest]_vars

\* The worker keeps answering: a message posted to it is taken, an execution
\* waiting at an await goes on, and the client's event loop delivers every
\* message posted to it.
IngestFairness ==
    /\ WF_vars(WorkerTakesMessage)
    /\ WF_vars(WorkerGoesOn)
    /\ WF_vars(ClientTakesMessage)

FairSpecIngest == SpecIngest /\ IngestFairness

\* The same with a caller that never cancels.
NextIngestUncancelled ==
    \/ ProcessFiles \/ Reset
    \/ WorkerTakesMessage \/ WorkerGoesOn \/ ClientTakesMessage

FairSpecIngestUncancelled ==
    InitIngest /\ [][NextIngestUncancelled]_vars /\ IngestFairness

\* The worker's pipeline alone.
OtherThanPipeline == <<Components, groupVars, handlerVars, chunkedVars, collectionVars>>

InitPipeline ==
    PipelineInit /\ ComponentsIdle /\ HandlerIdle /\ ChunkedIdle /\ CollectionIdle

ProcessJob == RunProcessFiles /\ UNCHANGED OtherThanPipeline

NextPipeline == ProcessJob

SpecPipeline == InitPipeline /\ [][NextPipeline]_vars

\* The archive detector alone.
InitDetect ==
    DetectInit /\ ComponentsIdle /\ HandlerIdle /\ ChunkedIdle /\ CollectionIdle

Detect == RunDetect /\ UNCHANGED OtherThanPipeline

NextDetect == Detect

SpecDetect == InitDetect /\ [][NextDetect]_vars

\* The progress messages of the worker's jobs.
InitProgress ==
    ProgressInit /\ ComponentsIdle /\ HandlerIdle /\ ChunkedIdle /\ CollectionIdle

ReportProgress == RunProgress /\ UNCHANGED OtherThanPipeline

NextProgress == ReportProgress

SpecProgress == InitProgress /\ [][NextProgress]_vars

\* The chunked upload alone.
OtherThanUpload == <<Components, groupVars, pipelineVars, handlerVars, collectionVars>>

InitUpload ==
    ChunkedIdle /\ ComponentsIdle /\ PipelineIdle /\ HandlerIdle /\ CollectionIdle

UploadLargeFile ==
    /\ \E totalChunks \in 0..MaxChunks, failAt \in 0..MaxChunks :
           failAt <= totalChunks /\ uploadLargeFile(totalChunks, failAt)
    /\ UNCHANGED OtherThanUpload

ReaderEnds == (\E c \in 1..Len(uCalls) : ChunkRead(c)) /\ UNCHANGED OtherThanUpload

TimeoutEnds == (\E c \in 1..Len(uCalls) : ChunkTimeout(c)) /\ UNCHANGED OtherThanUpload

\* cancelUpload while an upload is pending.
CancelUpload ==
    /\ \E c \in 1..Len(uCalls) : uCalls[c].outcome = "pending"
    /\ cancelUpload
    /\ UNCHANGED OtherThanUpload

NextUpload == UploadLargeFile \/ ReaderEnds \/ TimeoutEnds \/ CancelUpload

SpecUpload == InitUpload /\ [][NextUpload]_vars

\* The upload handlers alone: one upload or paste into an empty corpus.
OtherThanHandler ==
    <<Components, logicalGroups, globalOperator, pipelineVars, chunkedVars,
      collectionVars>>

InitHandler ==
    HandlerIdle /\ ComponentsIdle /\ PipelineIdle /\ ChunkedIdle /\ CollectionIdle

UploadPlainFile ==
    /\ hPath = "none"
    /\ \E content \in RawTexts : PlainFileLoaded(content)
    /\ UNCHANGED OtherThanHandler

UploadCompressedFile ==
    /\ hPath = "none"
    /\ \E content \in RawTexts : CompressedFileProcessed(content)
    /\ UNCHANGED OtherThanHandler

UploadInChunks ==
    /\ hPath = "none"
    /\ \E first, second \in RawTexts : LargeFileRead(<<first, second>>)
    /\ UNCHANGED OtherThanHandler

UploadMultipleFiles ==
    /\ hPath = "none"
    /\ \E first, second \in RawTexts : MultipleFilesRead(<<first, second>>)
    /\ UNCHANGED OtherThanHandler

Paste ==
    /\ hPath = "none"
    /\ \E value \in TextareaValues : TextareaChanged(value)
    /\ UNCHANGED OtherThanHandler

UploadFile ==
    /\ hPath = "none"
    /\ \E content \in RawTexts : FileLoaded(content)
    /\ UNCHANGED OtherThanHandler

NextHandler ==
    \/ UploadPlainFile \/ UploadCompressedFile \/ UploadInChunks
    \/ UploadMultipleFiles \/ Paste \/ UploadFile

SpecHandler == InitHandler /\ [][NextHandler]_vars

\* The pattern collection and the pattern groups alone; a behaviour uses the
\* flat collection or the groups, not both.
OtherThanCollection ==
    <<Components, groupVars, pipelineVars, handlerVars, chunkedVars>>

InitCollection ==
    CollectionIdle /\ ComponentsIdle /\ PipelineIdle /\ HandlerIdle /\ ChunkedIdle

PatternInputs == {<<"a">>, <<" ">>, <<"b", " ">>}

UsesGroups == patternGroups # << >>

UsesCollection == uiPatterns # << >> \/ newPattern # << >>

\* The input field's onChange.
SetNewPattern ==
    /\ ~UsesGroups
    /\ \E value \in PatternInputs : value # newPattern /\ newPattern' = value
    /\ UNCHANGED <<uiPatterns, patternGroups, now>>
    /\ UNCHANGED OtherThanCollection

AddPattern ==
    /\ ~UsesGroups
    /\ Len(uiPatterns) < MaxCollection
    /\ \E isRegexMode \in BOOLEAN : addPattern(isRegexMode)
    /\ UNCHANGED <<patternGroups, now>>
    /\ UNCHANGED OtherThanCollection

RemovePattern ==
    /\ uiPatterns # << >>
    /\ \E id \in 1..MaxNow : removePattern(id)
    /\ UNCHANGED <<patternGroups, now>>
    /\ UNCHANGED OtherThanCollection

TogglePattern ==
    /\ uiPatterns # << >>
    /\ \E id \in 1..MaxNow : togglePattern(id)
    /\ UNCHANGED <<patternGroups, now>>
    /\ UNCHANGED OtherThanCollection

CreateGroup ==
    /\ ~UsesCollection
    /\ Len(patternGroups) < MaxGroups
    /\ createGroup
    /\ UNCHANGED <<uiPatterns, newPattern, now>>
    /\ UNCHANGED OtherThanCollection

AddPatternToGroup ==
    /\ \E groupId \in 1..MaxNow, pattern \in PatternInputs, isRegex \in BOOLEAN :
          /\ Len(GroupedPatterns(patternGroups)) < MaxCollection
          /\ addPatternToGroup(groupId, pattern, isRegex)
    /\ UNCHANGED <<uiPatterns, newPattern, now>>
    /\ UNCHANGED OtherThanCollection

\* A millisecond passes.
ClockTick ==
    /\ now < MaxNow
    /\ now' = now + 1
    /\ UNCHANGED <<uiPatterns, newPattern, patternGroups>>
    /\ UNCHANGED OtherThanCollection

NextCollection ==
    \/ SetNewPattern \/ AddPattern \/ RemovePattern \/ TogglePattern
    \/ CreateGroup \/ AddPatternToGroup \/ ClockTick

SpecCollection == InitCollection /\ [][NextCollection]_vars

\* The pattern collection and the logical groups over it, in logical mode.
OtherThanEditing ==
    <<Components, globalOperator, logContent, pipelineVars, handlerVars, chunkedVars,
      uiPatterns, newPattern, patternGroups, now>>

InitEditing ==
    /\ CollectionIdle /\ PipelineIdle /\ HandlerIdle /\ ChunkedIdle
    /\ ContentIdle /\ SearchInit /\ ControllerIdle /\ IngestInit
    /\ mPatterns = << >> /\ mLine = << >> /\ mOut = NotEvaluated
    /\ logicalGroups = << >>
    /\ globalOperator \in {"AND", "OR"}
    /\ logContent = <<"a", NL, "b">>

AddLogicalGroup ==
    /\ Len(logicalGroups) < MaxGroups
    /\ addLogicalGroup
    /\ UNCHANGED OtherThanEditing

UpdateGroupOperator ==
    /\ \E g \in 1..Len(logicalGroups), operator \in {"AND", "OR"} :
          /\ operator # logicalGroups[g].operator
          /\ updateGroupOperator(logicalGroups[g].id, operator)
    /\ UNCHANGED OtherThanEditing

AddPatternIdToGroup ==
    /\ Len(GroupedPatterns(logicalGroups)) < MaxCollection
    /\ \E g \in 1..Len(logicalGroups) :
          \E patternId \in Selectable(logicalGroups[g]) :
              addPatternIdToGroup(logicalGroups[g].id, patternId)
    /\ UNCHANGED OtherThanEditing

RemovePatternIdFromGroup ==
    /\ \E g \in 1..Len(logicalGroups) :
          \E k \in 1..Len(logicalGroups[g].patterns) :
              /\ FindPattern(uiPatterns, logicalGroups[g].patterns[k]) # << >>
              /\ removePatternIdFromGroup(logicalGroups[g].id, logicalGroups[g].patterns[k])
    /\ UNCHANGED OtherThanEditing

NextEditing ==
    \/ SetNewPattern \/ AddPattern \/ RemovePattern \/ ClockTick
    \/ AddLogicalGroup \/ UpdateGroupOperator \/ AddPatternIdToGroup
    \/ RemovePatternIdFromGroup

SpecEditing == InitEditing /\ [][NextEditing]_vars

\* The large-file paths alone: one file, split and read.
OtherThanSplit ==
    <<Components, logicalGroups, globalOperator, pWorker, pUntar, pFiles, chunkedVars,
      collectionVars>>

InitSplit ==
    HandlerIdle /\ ComponentsIdle /\ PipelineIdle /\ ChunkedIdle /\ CollectionIdle

SplitLargeFile ==
    /\ hPath = "none"
    /\ \E file \in FileBytes : handleLargeFileUpload(file)
    /\ UNCHANGED OtherThanSplit

UploadWholeFile ==
    /\ hPath = "none"
    /\ \E file \in FileBytes : UploadedContent(file)
    /\ UNCHANGED OtherThanSplit

NextSplit == SplitLargeFile \/ UploadWholeFile

SpecSplit == InitSplit /\ [][NextSplit]_vars

\* ------------------------------------------------------------------------
\* Properties of the match engine
\* ------------------------------------------------------------------------

\* Whether pattern p occurs in line, ignoring case.
Occurs(p, line) ==
    \E k \in 0..(Len(line) - Len(p.pattern)) :
        SubSeq(ToLower(line), k + 1, k + Len(p.pattern)) = ToLower(p.pattern)

\* The left-to-right fold over the first n patterns of ps.
RECURSIVE LeftFold(_, _, _)
LeftFold(ps, line, n) ==
    IF n = 0 THEN FALSE
    ELSE IF n = 1 THEN Occurs(ps[1], line)
    ELSE IF ps[n].logicalOperator = "OR"
         THEN LeftFold(ps, line, n - 1) \/ Occurs(ps[n], line)
         ELSE LeftFold(ps, line, n - 1) /\ Occurs(ps[n], line)

DistinctIds(ps) == \A j, k \in 1..Len(ps) : ps[j].id = ps[k].id => j = k

\* C10: in flat-chain mode a line is included exactly when the strict
\* left-to-right fold over the enabled patterns holds: hasMatch(p0), then OR or
\* AND (the default) with each later pattern's hasMatch, no precedence.
C10_InclusionIsLeftFold ==
    mOut.done /\ ~mOut.hang =>
        LET ps == FilterEnabled(mPatterns)
        IN mOut.included = LeftFold(ps, mLine, Len(ps))

\* The fold holds of every pattern list whose enabled patterns have pairwise
\* distinct ids.
C10_LeftFoldWithDistinctIds ==
    mOut.done /\ ~mOut.hang /\ DistinctIds(FilterEnabled(mPatterns)) =>
        LET ps == FilterEnabled(mPatterns)
        IN mOut.included = LeftFold(ps, mLine, Len(ps))

\* The class of a character when case is ignored.
Fold(c) == IF c \in {"a", "A"} THEN "a" ELSE IF c \in {"b", "B"} THEN "b" ELSE c

\* text occurs in line at 0-based position k, case ignored.
OccursAt(text, line, k) ==
    /\ k + Len(text) <= Len(line)
    /\ \A j \in 1..Len(text) : Fold(line[k + j]) = Fold(text[j])

\* The starts of the leftmost-first, non-overlapping occurrences of a
\* non-empty text in line, from position k on.
RECURSIVE Occurrences(_, _, _)
Occurrences(text, line, k) ==
    IF k + Len(text) > Len(line) THEN << >>
    ELSE IF OccursAt(text, line, k)
         THEN <<k>> \o Occurrences(text, line, k + Len(text))
         ELSE Occurrences(text, line, k + 1)

\* The spans a pattern should have on a line: those of its occurrences; none
\* for a regular expression that does not compile. The regular expressions
\* that compile and never match the empty string are, in this model, sequences
\* of literal characters.
OccurrenceSpans(p, starts) ==
    [k \in 1..Len(starts) |-> Span(p, starts[k], starts[k] + Len(p.pattern))]

ExpectedSpans(p, line) ==
    IF p.isRegex /\ \E k \in 1..Len(p.pattern) : p.pattern[k] \in {"*", "("}
    THEN << >>
    ELSE OccurrenceSpans(p, Occurrences(p.pattern, line, 0))

\* The spans all of ps should have on a line, pattern after pattern.
RECURSIVE ExpectedUnion(_, _)
ExpectedUnion(ps, line) ==
    IF Len(ps) = 0 THEN << >>
    ELSE ExpectedSpans(ps[1], line) \o ExpectedUnion(Tail(ps), line)

\* The lists a and b hold the same elements the same number of times.
SameElements(a, b) ==
    /\ Len(a) = Len(b)
    /\ \A j \in 1..Len(a) :
          Cardinality({k \in 1..Len(a) : a[k] = a[j]})
              = Cardinality({k \in 1..Len(b) : b[k] = a[j]})

AscendingStarts(ms) == \A j, k \in 1..Len(ms) : j < k => ms[j].start <= ms[k].start

\* C11: in simple mode a line is included exactly when an enabled pattern has
\* a span on it, and the spans of its result are those of all the enabled
\* patterns, in ascending order of start.
C11_SimpleInclusionAndSpans ==
    mOut.done /\ ~mOut.hang =>
        LET expected == ExpectedUnion(FilterEnabled(mPatterns), mLine)
        IN /\ mOut.included = (Len(expected) > 0)
           /\ mOut.included =>
                 /\ SameElements(mOut.result.matches, expected)
                 /\ AscendingStarts(mOut.result.matches)

\* The inclusion part alone.
C11_SimpleInclusion ==
    mOut.done /\ ~mOut.hang =>
        mOut.included = (Len(ExpectedUnion(FilterEnabled(mPatterns), mLine)) > 0)

\* C13: matching a line against regular expressions terminates, also when a
\* pattern can match the empty string.
C13_RegexMatchingTerminates ==
    mOut.done /\ (\A k \in 1..Len(mPatterns) : mPatterns[k].isRegex) => ~mOut.hang

\* The enabled literal patterns with non-empty text.
EnabledLiterals ==
    {mPatterns[k] : k \in {j \in 1..Len(mPatterns) :
                              /\ mPatterns[j].isEnabled
                              /\ ~mPatterns[j].isRegex
                              /\ Len(mPatterns[j].pattern) > 0}}

\* Each span is n long and none starts before the previous one ends.
LengthsAndOrder(spans, n) ==
    \A j \in 1..Len(spans) :
        /\ spans[j].end - spans[j].start = n
        /\ j > 1 => spans[j].start >= spans[j - 1].end

\* C15: the spans of a literal pattern with non-empty text are exactly the
\* leftmost-first, non-overlapping occurrences of its text in the line, case
\* ignored, each as long as the text and none starting before the previous
\* one ends.
C15_LiteralSpansAreOccurrences ==
    mOut.done /\ ~mOut.hang =>
        \A p \in EnabledLiterals :
            /\ FindMatches(mLine, p).spans = ExpectedSpans(p, mLine)
            /\ LengthsAndOrder(FindMatches(mLine, p).spans, Len(p.pattern))

\* The part of C15 that speaks of the spans' lengths and order alone.
C15_LiteralSpansDoNotOverlap ==
    mOut.done /\ ~mOut.hang =>
        \A p \in EnabledLiterals :
            LengthsAndOrder(FindMatches(mLine, p).spans, Len(p.pattern))

\* toLowerCase() leaves the line as long as it was.
LowerCaseKeepsLength == Len(ToLower(mLine)) = Len(mLine)

\* C15 on the lines whose lower case is as long as the line.
C15_OccurrencesWhenLowerCaseKeepsLength ==
    LowerCaseKeepsLength => C15_LiteralSpansAreOccurrences

\* C16: every span of an emitted result lies in its line and is not empty:
\* 0 <= start < end <= length of the line.
C16_SpansLieInLine ==
    mOut.done /\ mOut.included =>
        \A k \in 1..Len(mOut.result.matches) :
            /\ 0 <= mOut.result.matches[k].start
            /\ mOut.result.matches[k].start < mOut.result.matches[k].end
            /\ mOut.result.matches[k].end <= Len(mOut.result.content)

\* C11 and C16 on the lines whose lower case is as long as the line.
C11_SimpleModeWhenLowerCaseKeepsLength ==
    LowerCaseKeepsLength => C11_SimpleInclusionAndSpans

C16_SpansLieInLineWhenLowerCaseKeepsLength ==
    LowerCaseKeepsLength => C16_SpansLieInLine

\* ------------------------------------------------------------------------
\* Properties of the grouped mode
\* ------------------------------------------------------------------------

\* The groups that take part: enabled, with at least one pattern id.
Participating ==
    {k \in 1..Len(logicalGroups) :
        logicalGroups[k].isEnabled /\ Len(logicalGroups[k].patterns) > 0}

\* The patterns of the collection that group g names.
PatternsOfGroup(g) ==
    {mPatterns[k] : k \in {j \in 1..Len(mPatterns) :
                              \E i \in 1..Len(g.patterns) : g.patterns[i] = mPatterns[j].id}}

\* Pattern p matches line: its text occurs in it, case ignored; "x*" matches
\* every line.
PatternHolds(p, line) ==
    IF p.isRegex /\ Len(p.pattern) > 0 /\ p.pattern[Len(p.pattern)] = "*" THEN TRUE
    ELSE \E k \in 0..Len(line) : OccursAt(p.pattern, line, k)

GroupHolds(g, line) ==
    IF g.operator = "AND"
    THEN \A p \in PatternsOfGroup(g) : PatternHolds(p, line)
    ELSE \E p \in PatternsOfGroup(g) : PatternHolds(p, line)

\* Every participating group matches under AND, at least one under OR.
LineHolds(line) ==
    IF globalOperator = "AND"
    THEN \A k \in Participating : GroupHolds(logicalGroups[k], line)
    ELSE \E k \in Participating : GroupHolds(logicalGroups[k], line)

\* The numbers of the lines in the results.
IncludedLines == {mOut.results[k].lineNumber : k \in 1..Len(mOut.results)}

\* C12 as stated: in grouped mode a line is included exactly when every
\* participating group matches it (global operator AND) or at least one does
\* (OR), a group matching when all (AND) or any (OR) of its patterns match, and
\* only enabled groups with at least one pattern taking part.
C12_IncludedWhenGroupsMatch ==
    mOut.done /\ ~mOut.hang =>
        \A i \in 1..Len(Split(logContent)) :
            (i \in IncludedLines) = LineHolds(Split(logContent)[i])

\* Something is searched: there is content, there are patterns, and a group
\* takes part.
SomethingToSearch == Len(logContent) > 0 /\ Len(mPatterns) > 0 /\ Participating # {}

\* C12, amended: when the content and the pattern collection are not empty and
\* at least one group takes part, a line is included exactly when every
\* participating group matches it (AND) or at least one does (OR); otherwise
\* no line is included, whatever the global operator. The results are in the
\* order of the lines.
C12_GroupedInclusion ==
    mOut.done /\ ~mOut.hang =>
        /\ SomethingToSearch =>
              \A i \in 1..Len(Split(logContent)) :
                  (i \in IncludedLines) = LineHolds(Split(logContent)[i])
        /\ ~SomethingToSearch => mOut.results = << >>
        /\ \A k \in 1..Len(mOut.results) :
              /\ mOut.results[k].content = Split(logContent)[mOut.results[k].lineNumber]
              /\ k > 1 => mOut.results[k].lineNumber > mOut.results[k - 1].lineNumber

\* Two groups with different operators take part under the global operator
\* AND; one line is included and another is not.
C12_Witness ==
    /\ mOut.done /\ ~mOut.hang
    /\ globalOperator = "AND"
    /\ Participating = {1, 2}
    /\ logicalGroups[1].operator # logicalGroups[2].operator
    /\ Len(mOut.results) = 1
    /\ Len(Split(logContent)) = 2

\* ------------------------------------------------------------------------
\* Properties of the content store
\* ------------------------------------------------------------------------

IsPrefix(d, f) == Len(d) <= Len(f) /\ SubSeq(f, 1, Len(d)) = d

\* d ends where f ends or right before a line feed of f.
EndsOnLineBoundary(d, f) == Len(d) = Len(f) \/ f[Len(d) + 1] = NL

CountLines(t) == 1 + Cardinality({k \in 1..Len(t) : t[k] = NL})

\* C7: after loadMore() on a truncated view the display content is the full
\* authoritative text and truncated is false.
C7_LoadMoreShowsFullText ==
    cmLast = "loadMore" =>
        cmState.content = fullContentRef /\ ~cmState.truncated

\* C8: the display content is a prefix of the authoritative text that ends on
\* a line boundary; when the full text has more than maxLines lines the display
\* content is exactly its first maxLines lines and truncated is true, maxLines
\* being the hook's argument as well as the maxLines the state shows.
C8_DisplayIsLinePrefix ==
    /\ IsPrefix(cmState.content, fullContentRef)
    /\ EndsOnLineBoundary(cmState.content, fullContentRef)
    /\ \A limit \in {maxLines, cmState.maxLines} :
          CountLines(fullContentRef) > limit =>
              /\ CountLines(cmState.content) = limit
              /\ Split(cmState.content) = SubSeq(Split(fullContentRef), 1, limit)
              /\ cmState.truncated

\* A text of more lines than maxLines is shown cut to its first lines.
C8_Witness ==
    /\ cmState.truncated
    /\ CountLines(fullContentRef) > maxLines
    /\ cmState.content # fullContentRef
    /\ cmState.content # EmptyText

\* C9: getFullContent() returns the text of the most recent setContent, or the
\* empty text after clearContent or before any setContent, truncated or not.
C9_FullContentIsLastSet == getFullContent = cmLastSet

\* The view is truncated after loadMore or updateMaxLines, and getFullContent()
\* is the text last set.
C9_Witness ==
    /\ cmState.truncated
    /\ cmState.content # fullContentRef
    /\ cmLast \in {"loadMore", "updateMaxLines"}
    /\ getFullContent = cmLastSet

\* ------------------------------------------------------------------------
\* Properties of the search scheduler
\* ------------------------------------------------------------------------

\* The results a whole, undisturbed run r produces.
FullResults(r) ==
    ProcessChunk(runs[r].lines, 0, Len(runs[r].lines), runs[r].enabledPatterns, << >>).results

ShownResults == {sState.results[k] : k \in 1..Len(sState.results)}

\* C1: once run B has started, a run A it superseded changes none of results,
\* processedLines, progress and isSearching any more, and the results shown
\* hold only lines B's patterns match.
C1_SupersededRunIsSilent ==
    /\ \A u \in lateUpdates :
          u.why = "superseded" =>
              u.what \notin {"results", "processedLines", "progress", "isSearching"}
    /\ Len(runs) > 0 =>
          ShownResults \subseteq
              {FullResults(Len(runs))[k] : k \in 1..Len(FullResults(Len(runs)))}

\* C2: a run that cancelSearch() cancelled at a yield point processes no
\* further chunk and changes none of results, processedLines and progress.
C2_CancelledRunIsSilent ==
    \A u \in lateUpdates :
        u.why = "cancelled" =>
            u.what \notin {"chunk", "results", "processedLines", "progress"}


\* Run r is neither superseded nor cancelled.
Undisturbed(r) == r = Len(runs) /\ runs[r].cancelled = "no"

\* When a run that is neither cancelled nor superseded leaves its loop, the
\* state has isSearching = false, processedLines = totalLines, the number of
\* lines of its content, and progress exactly 100; a run that has ended
\* changes nothing any more.
CompletedRunEndsAtHundred ==
    /\ [][\A r \in 1..Len(runs) :
             Len(runs') = Len(runs) /\ runs[r].pc = "yield" /\ runs'[r].pc = "done"
                 /\ Undisturbed(r)
             => /\ ~sState'.isSearching
                /\ sState'.processedLines = sState'.totalLines
                /\ sState'.totalLines = Len(runs[r].lines)
                /\ sState'.progress = [num |-> 100, den |-> 1]]_vars
    /\ [][\A r \in 1..Len(runs) :
             runs[r].pc = "done" =>
                 /\ runs'[r].pc = "done"
                 /\ runs'[r].results = runs[r].results
                 /\ runs'[r].processedLines = runs[r].processedLines]_vars

\* C17: a run that is neither cancelled nor superseded ends: it is never in
\* a loop it cannot leave, and when it leaves its loop it leaves isSearching =
\* false, processedLines = totalLines and progress exactly 100, as its last
\* update of the state.
C17_UndisturbedRunEndsAtHundred ==
    /\ CompletedRunEndsAtHundred
    /\ [](\A r \in 1..Len(runs) : Undisturbed(r) => runs[r].pc # "hung")

\* A run over several chunks has ended undisturbed: the state shows its
\* results, all its lines processed and progress 100.
CompletedRunReached ==
    \E r \in 1..Len(runs) :
        /\ Undisturbed(r) /\ runs[r].pc = "done"
        /\ Len(runs[r].lines) > runs[r].chunkSize
        /\ ~sState.isSearching
        /\ sState.processedLines = Len(runs[r].lines)
        /\ sState.progress = [num |-> 100, den |-> 1]
        /\ sState.results = runs[r].results
        /\ Len(sState.results) > 0

\* Run r publishes in the step: it is new with enabled patterns, or its count
\* of processed lines changes.
Publishes(r) ==
    IF r > Len(runs) THEN Len(runs'[r].enabledPatterns) > 0
    ELSE runs'[r].processedLines # runs[r].processedLines

\* C18: within one run the published list of results only grows by
\* appending: what a run publishes is its accumulated list, which has every
\* list it published before as a prefix, and the line numbers of a published
\* list are strictly increasing.
C18_ResultsGrowByAppending ==
    /\ [][\A r \in 1..Len(runs') :
             /\ r <= Len(runs) => IsPrefix(runs[r].results, runs'[r].results)
             /\ Publishes(r) => sState'.results = runs'[r].results]_vars
    /\ [](\A k \in 2..Len(sState.results) :
             sState.results[k].lineNumber > sState.results[k - 1].lineNumber)

\* A run has published after its first chunk and after a later one, with
\* lines found in both.
C18_Witness ==
    \E r \in 1..Len(runs) :
        /\ runs[r].i > 0
        /\ sState.results = runs[r].results
        /\ \E j, k \in 1..Len(sState.results) :
              /\ sState.results[j].lineNumber <= runs[r].chunkSize
              /\ sState.results[k].lineNumber > runs[r].chunkSize

\* The smaller of two numbers.
Least(a, b) == IF a < b THEN a ELSE b

\* C19: after the k-th chunk of a run the published processedLines is
\* min(k * chunkSize, totalLines), more than the run published before and at
\* most totalLines, and the published progress is processedLines / totalLines
\* * 100.
C19_ProgressFollowsChunks ==
    [][\A r \in 1..Len(runs') :
          Publishes(r) =>
              /\ sState'.totalLines = Len(runs'[r].lines)
              /\ sState'.processedLines =
                    Least(((runs'[r].i \div runs'[r].chunkSize) + 1) * runs'[r].chunkSize,
                          sState'.totalLines)
              /\ sState'.processedLines <= sState'.totalLines
              /\ r <= Len(runs) => sState'.processedLines > runs[r].processedLines
              /\ sState'.progress.num * sState'.totalLines
                    = sState'.progress.den * sState'.processedLines * 100]_vars

\* A run is between its chunks: it has published its second chunk, with
\* lines still to come and a progress below 100.
C19_Witness ==
    \E r \in 1..Len(runs) :
        /\ runs[r].pc = "yield" /\ Undisturbed(r)
        /\ runs[r].i > 0
        /\ sState.processedLines = 2 * runs[r].chunkSize
        /\ sState.processedLines < sState.totalLines
        /\ sState.progress.num * sState.totalLines
              = sState.progress.den * sState.processedLines * 100
        /\ sState.progress.num < 100 * sState.progress.den

\* C20: a searchInChunks call with no enabled pattern sets results to the
\* empty list and changes nothing else of the state: isSearching is not set
\* and no progress is published, in the call or after it.
C20_NoEnabledPatternNoSearch ==
    [][Len(runs') = Len(runs) + 1 /\ Len(runs'[Len(runs')].enabledPatterns) = 0
          => /\ sState'.results = << >>
             /\ sState'.isSearching = sState.isSearching
             /\ sState'.processedLines = sState.processedLines
             /\ sState'.totalLines = sState.totalLines
             /\ sState'.progress = sState.progress
             /\ runs'[Len(runs')].pc = "done"]_vars

\* The last call had no enabled pattern and came while an earlier run was in
\* flight: the results are empty, isSearching and the progress are as that run
\* left them.
C20_Witness ==
    /\ Len(runs) > 1
    /\ Len(runs[Len(runs)].enabledPatterns) = 0
    /\ sState.results = << >>
    /\ sState.isSearching
    /\ sState.processedLines > 0

\* A regular expression of the model that does not compile.
DoesNotCompile(p) ==
    p.isRegex /\ \E k \in 1..Len(p.pattern) : p.pattern[k] = "("

\* ps with every pattern that does not compile replaced by a literal pattern
\* whose text is in no line.
WithoutInvalid(ps) ==
    [k \in 1..Len(ps) |->
        IF DoesNotCompile(ps[k])
        THEN [ps[k] EXCEPT !.pattern = <<"z">>, !.isRegex = FALSE]
        ELSE ps[k]]

HasInvalid(ps) == \E k \in 1..Len(ps) : DoesNotCompile(ps[k])

\* C14: a regular expression that does not compile contributes no span and
\* counts as not matching, and stops nothing: at every point of a run the
\* results gathered over the lines processed so far are those of the same
\* patterns with the invalid one replaced by a pattern that matches no line,
\* no span carries the invalid pattern's text, the thread is not stuck, and a
\* run that ends without having been aborted has processed every line.
C14_InvalidRegexIsSkipped ==
    \A r \in 1..Len(runs) :
        HasInvalid(runs[r].enabledPatterns) =>
            /\ runs[r].pc # "hung"
            /\ runs[r].results =
                  ProcessChunk(runs[r].lines, 0, runs[r].processedLines,
                               WithoutInvalid(runs[r].enabledPatterns), << >>).results
            /\ \A k \in 1..Len(runs[r].results) :
                  \A j \in 1..Len(runs[r].results[k].matches) :
                      \A q \in 1..Len(runs[r].enabledPatterns) :
                          DoesNotCompile(runs[r].enabledPatterns[q]) =>
                              runs[r].results[k].matches[j].pattern
                                  # runs[r].enabledPatterns[q].pattern
            /\ runs[r].pc = "done" /\ ~runs[r].aborted =>
                  runs[r].processedLines = Len(runs[r].lines)

\* A run over several chunks with an invalid regular expression among its
\* patterns has ended, not aborted, with lines found by the other pattern in
\* its first chunk and in a later one.
C14_Witness ==
    \E r \in 1..Len(runs) :
        /\ HasInvalid(runs[r].enabledPatterns)
        /\ runs[r].pc = "done" /\ ~runs[r].aborted
        /\ Len(runs[r].lines) > runs[r].chunkSize
        /\ \E j, k \in 1..Len(runs[r].results) :
              /\ runs[r].results[j].lineNumber <= runs[r].chunkSize
              /\ runs[r].results[k].lineNumber > runs[r].chunkSize
        /\ sState.results = runs[r].results

\* ------------------------------------------------------------------------
\* Properties of the search controller
\* ------------------------------------------------------------------------

\* The content is over a confirmation threshold, counted on the text itself.
ExceedsThresholds(content) ==
    CountLines(content) > WARN_LINES \/ Len(content) > WARN_SIZE_BYTES

\* C5: in a burst of triggerSearch calls, each less than the quiet period
\* after the previous one, at most one search is started, and it is the search
\* the last call of the burst asked for: a call whose timer started a search
\* is never followed by another call of its burst, and no two searches come
\* from the same burst.
C5_OnlyLastCallOfBurstSearches ==
    /\ \A f \in fired :
          f.call.burst = lastCall.burst => f.call.no = lastCall.no
    /\ \A f, g \in fired : f.call.burst = g.call.burst => f = g

\* The last call is one of those C6 is about: showWarning set, content over
\* a threshold, an enabled pattern, content not blank.
ConfirmationCase(c) ==
    /\ c.no > 0
    /\ c.showWarning
    /\ ExceedsThresholds(c.content)
    /\ c.enabledPatterns > 0
    /\ Trim(c.content) # EmptyText

CallStep == lastCall'.no = lastCall.no + 1

C3_AppliedMessagesAreOfCurrentJob ==
    handled.outcome = "applied" /\ handled.type \in {"PROGRESS", "SUCCESS", "ERROR"}
        => handled.by = handled.current

\* An execution that has not ended and is not cancelled.
Executing(e) == executions[e].pc # "done" /\ ~processor.cancelled

\* C4: once the worker has taken job B's PROCESS_FILES, it takes no further
\* processing step for job A, and at most one job is executing at any time.
C4_OneJobExecuting ==
    /\ Cardinality({e \in 1..Len(executions) : Executing(e)}) <= 1
    /\ workerStep.job # NoJob /\ workerStep.processed
          => workerStep.job = workerStep.newest


\* ------------------------------------------------------------------------
\* Properties of the worker's pipeline
\* ------------------------------------------------------------------------

ArchiveFormats == {"zip", "gzip", "tar", "tar.gz"}

\* The job is of one file, which went to decompressFile as an archive of one
\* of the four formats, and the decompress function of that format threw.
DecompressionFailed ==
    /\ pOut.done /\ Len(pFiles) = 1
    /\ isCompressedFile(pWorker, pFiles[1].name)
    /\ FormatOf(pWorker, pFiles[1]) \in ArchiveFormats
    /\ Decompress(pWorker, pUntar, FormatOf(pWorker, pFiles[1]), pFiles[1].buffer).threw

\* After a failed decompression the result is the text of the file's raw
\* bytes, and the job fails only when those cannot be decoded either.
FallsBackToPlainText ==
    /\ pOut.result.threw = TextDecode(pFiles[1].buffer).threw
    /\ ~pOut.result.threw =>
          /\ pOut.result.content = TextDecode(pFiles[1].buffer).text
          /\ pOut.result.type = "text"
          /\ ~pOut.result.isMultiFile

\* C21: whenever the decompression of a file fails, whatever the archive
\* format, the pipeline decodes the file's raw bytes as plain text and returns
\* that as the file's result; the job fails only if that decode fails too.
C21_FallbackToPlainText == DecompressionFailed => FallsBackToPlainText

\* The same for the FileProcessor of useStreamingSearch.ts alone.
FallbackInUseStreamingSearch ==
    DecompressionFailed /\ pWorker = "useStreamingSearch.ts" => FallsBackToPlainText

\* The job of several files ends with a result whose files are one entry per
\* input file, in input order: of type 'error' for a file whose processing
\* failed, and with the file's content and type for every other file.
OneEntryPerFile ==
    /\ ~pOut.result.threw
    /\ Len(pOut.result.files) = Len(pFiles)
    /\ \A k \in 1..Len(pFiles) :
          /\ pOut.result.files[k].name = pFiles[k].name
          /\ IF processSingleFile(pWorker, pUntar, pFiles[k]).threw
             THEN pOut.result.files[k].type = "error"
             ELSE /\ pOut.result.files[k].type
                       = processSingleFile(pWorker, pUntar, pFiles[k]).type
                  /\ pOut.result.files[k].content
                       = processSingleFile(pWorker, pUntar, pFiles[k]).content

\* C22: in a job of several files, a file whose processing fails is recorded
\* as one entry of type 'error', every other file is still processed, and the
\* job ends with a result whose files list has exactly one entry per input
\* file in input order.
C22_FailedFileIsAnErrorEntry == pOut.done /\ Len(pFiles) > 1 => OneEntryPerFile

\* The same for the FileProcessor of useStreamingSearch.ts alone.
ErrorEntryInUseStreamingSearch ==
    pOut.done /\ Len(pFiles) > 1 /\ pWorker = "useStreamingSearch.ts" => OneEntryPerFile

\* C23: a single input file takes the decompression path exactly when the
\* archive detector (extension, then magic bytes) classifies it as gzip, tar,
\* tar.gz or zip, and the plain-text path otherwise.
C23_DispatchFollowsDetector ==
    pOut.done /\ Len(pFiles) = 1 /\ pWorker = "useStreamingSearch.ts" =>
        IF detectCompressionFormat(pWorker, pFiles[1].name, pFiles[1].buffer)
               \in ArchiveFormats
        THEN pOut.result.path = "decompressFile"
        ELSE pOut.result.path = "processRegularFile"

\* The dispatch goes by the extension alone: a file is decompressed exactly
\* when its name has an archive extension.
DispatchFollowsExtension ==
    pOut.done /\ Len(pFiles) = 1 /\ pWorker = "useStreamingSearch.ts" =>
        IF FormatByExtension(pWorker, ToLower(pFiles[1].name)) \in ArchiveFormats
        THEN pOut.result.path = "decompressFile"
        ELSE pOut.result.path = "processRegularFile"

\* Whether two names are the same but for the case of their letters.
SameButCase(a, b) ==
    Len(a) = Len(b) /\ \A k \in 1..Len(a) : ToLowerChar(a[k]) = ToLowerChar(b[k])

\* Whether the name ends in the extension, in whatever case.
HasExtension(name, ext) ==
    Len(name) >= Len(ext)
        /\ SameButCase(SubSeq(name, Len(name) - Len(ext) + 1, Len(name)), ext)

\* The format the extension of the name stands for, "none" without one.
FormatOfName(name) ==
    IF HasExtension(name, EXT_TAR_GZ) \/ HasExtension(name, EXT_TGZ) THEN "tar.gz"
    ELSE IF HasExtension(name, EXT_TAR) THEN "tar"
    ELSE IF HasExtension(name, EXT_GZ) \/ HasExtension(name, EXT_GZIP) THEN "gzip"
    ELSE IF HasExtension(name, EXT_ZIP) THEN "zip"
    ELSE "none"

\* The detector's answer is the format of the name's extension, when the name
\* has one.
DecidesByName ==
    pOut.done /\ FormatOfName(pFiles[1].name) # "none" =>
        pOut.format = FormatOfName(pFiles[1].name)

\* C24: the detector decides by the file name first, in whatever case and
\* whatever the header bytes: .tar.gz and .tgz give tar.gz, .tar gives tar,
\* .gz and .gzip give gzip, .zip gives zip.
C24_ExtensionDecidesFirst == DecidesByName

\* The same for the detector of useStreamingSearch.ts alone.
ExtensionDecidesInUseStreamingSearch ==
    pWorker = "useStreamingSearch.ts" => DecidesByName

\* The format the magic bytes stand for: the bytes of the buffer at offsets 0
\* and 1, and at offsets 257..261 when the buffer is that long.
FormatOfBytes(buffer) ==
    IF Len(buffer.head) >= 2 /\ buffer.head[1] = 80 /\ buffer.head[2] = 75 THEN "zip"
    ELSE IF Len(buffer.head) >= 2 /\ buffer.head[1] = 31 /\ buffer.head[2] = 139
    THEN "gzip"
    ELSE IF buffer.byteLength >= 262 /\ buffer.at257 = <<"u", "s", "t", "a", "r">>
    THEN "tar"
    ELSE "unknown"

\* C25: for a name with none of the archive extensions the detector gives zip
\* for the first bytes 50 4B, gzip for 1F 8B, tar when the bytes at offsets
\* 257..261 spell "ustar", and unknown in every other case.
C25_MagicBytesDecideNext ==
    pOut.done /\ FormatOfName(pFiles[1].name) = "none" =>
        pOut.format = FormatOfBytes(pFiles[1].buffer)

\* The detector of useStreamingSearch.ts on buffers that are not exactly 262
\* bytes long.
MagicBytesButAtTheEnd ==
    pOut.done /\ FormatOfName(pFiles[1].name) = "none"
        /\ pWorker = "useStreamingSearch.ts" /\ pFiles[1].buffer.byteLength # 262
    => pOut.format = FormatOfBytes(pFiles[1].buffer)

\* Every percent reported lies in 0..100.
PercentInRange ==
    pOut.done =>
        \A k \in 1..Len(pOut.messages) :
            /\ 0 <= pOut.messages[k].progress
            /\ pOut.messages[k].progress <= 100 * pOut.messages[k].den

\* The percents reported for one stage never decrease.
PercentNeverDecreases ==
    \A i, j \in 1..Len(pOut.messages) :
        i < j /\ pOut.messages[i].stage = pOut.messages[j].stage =>
            pOut.messages[i].progress * pOut.messages[j].den
                <= pOut.messages[j].progress * pOut.messages[i].den

\* C26: within one job the percents reported for any one stage never decrease,
\* and every percent reported lies in 0..100.
C26_StageProgressIsMonotonic ==
    pOut.done => PercentNeverDecreases /\ (\A k \in 1..Len(pOut.messages) :
                                              pOut.messages[k].progress
                                                  <= 100 * pOut.messages[k].den)

\* The same for the jobs of one file in useStreamingSearch.ts and for the jobs
\* of regular files in fileProcessor.worker.js.
ProgressOfOneFileIsMonotonic ==
    pOut.done /\ (Len(pFiles) = 1 \/ pWorker = "fileProcessor.worker.js") =>
        PercentNeverDecreases

\* The regular files among an archive's entries, in the archive's order.
RegularMembers(entries) == SelectSeq(entries, LAMBDA e : e.regular)

\* The job is of one archive (tar, tar.gz or zip by name and by content) with
\* two or more regular members, run by a script that has a function for it.
ArchiveOfSeveralMembers ==
    /\ pOut.done /\ Len(pFiles) = 1
    /\ \/ FormatOfName(pFiles[1].name) = "tar" /\ pFiles[1].buffer.kind = "tar"
       \/ FormatOfName(pFiles[1].name) = "tar.gz" /\ pFiles[1].buffer.kind = "targz"
       \/ /\ FormatOfName(pFiles[1].name) = "zip" /\ pFiles[1].buffer.kind = "zip"
          /\ pWorker = "useStreamingSearch.ts"
    /\ pWorker \in {"useStreamingSearch.ts", "fileProcessor.worker.js"}
    /\ Len(RegularMembers(pFiles[1].buffer.entries)) >= 2

\* The text without the white space at its end.
RECURSIVE WithoutTrailingSpace(_)
WithoutTrailingSpace(t) ==
    IF Len(t) > 0 /\ t[Len(t)] \in Whitespace
    THEN WithoutTrailingSpace(SubSeq(t, 1, Len(t) - 1)) ELSE t

\* In content a line naming the member stands before the member's text (up to
\* the white space at the text's end).
NamedBeforeText(content, member) ==
    \E i \in 1..Len(content), j \in 1..(Len(content) + 1) :
        /\ i + Len(member.name) + 2 <= j
        /\ SubSeq(content, i, i + Len(member.name) + 2)
               = <<"=== ">> \o member.name \o <<" ===", NL>>
        /\ SubSeq(content, j, j + Len(WithoutTrailingSpace(member.content)) - 1)
               = WithoutTrailingSpace(member.content)

\* The result has an entry for each regular member, in order and with the
\* member's text, and its content names each member before the member's text.
OneEntryPerMember ==
    LET members == RegularMembers(pFiles[1].buffer.entries)
    IN  /\ ~pOut.result.threw
        /\ pOut.result.isMultiFile
        /\ Len(pOut.result.files) = Len(members)
        /\ \A k \in 1..Len(members) :
              /\ pOut.result.files[k].name = members[k].name
              /\ pOut.result.files[k].content = members[k].content
              /\ NamedBeforeText(pOut.result.content, members[k])

\* C29: an archive (tar, tar.gz or zip) with two or more regular members gives
\* a multi-file result with exactly one entry for each regular member, in the
\* archive's order and with the member's text; directories give no entry; the
\* combined content names each member before the member's text.
C29_OneEntryPerRegularMember == ArchiveOfSeveralMembers => OneEntryPerMember

\* The same where the tar entries' type is the one the script looks for, and
\* for zip archives.
OneEntryPerMemberWhenTypeIsKnown ==
    ArchiveOfSeveralMembers
        /\ \/ FormatOfName(pFiles[1].name) = "zip"
           \/ pWorker = "useStreamingSearch.ts" /\ pUntar = "word"
           \/ pWorker = "fileProcessor.worker.js" /\ pUntar = "typeflag"
    => OneEntryPerMember

\* ------------------------------------------------------------------------
\* Properties of the chunked upload
\* ------------------------------------------------------------------------

\* No read of a chunk has failed.
NoReadFailed == \A c \in 1..Len(uCalls) : uCalls[c].message # "Failed to read chunk"

\* C27: a deliberate cancel never produces an error outcome: when cancelUpload
\* was called on a pending upload (and no read failed) the error field stays
\* null and the promise of the upload is not rejected.
C27_CancelIsNotAnError ==
    NoReadFailed =>
        \A c \in 1..Len(uCalls) :
            uCalls[c].cancelled =>
                uState.error = "null" /\ uCalls[c].outcome # "rejected"

\* An upload cancelled during its last chunk ends as if it had not been; no
\* other cancelled upload does.
CancelledUploadResolvesOnlyAfterLastChunk ==
    \A c \in 1..Len(uCalls) :
        uCalls[c].cancelled /\ uCalls[c].outcome = "resolved" /\ uController.aborted =>
            uCalls[c].chunkIndex + 1 = uCalls[c].totalChunks

\* Without a cancel and without a failed read no upload ends in an error.
UploadFailsOnlyByCancelOrRead ==
    \A c \in 1..Len(uCalls) :
        uCalls[c].outcome = "rejected" =>
            \/ uCalls[c].message = "Failed to read chunk"
            \/ uCalls[c].message = "Upload cancelled" /\ uCalls[c].cancelled

\* ------------------------------------------------------------------------
\* Properties of the upload handlers
\* ------------------------------------------------------------------------

\* The text has no carriage return.
NoCarriageReturn(t) == \A k \in 1..Len(t) : t[k] # CR

\* The line breaks of a text made line feeds, one for each: the text read from
\* the left, a carriage return and the line feed after it counting as one.
RECURSIVE LineFeedsOnly(_)
LineFeedsOnly(t) ==
    IF Len(t) = 0 THEN t
    ELSE IF t[1] = CR
    THEN <<NL>> \o LineFeedsOnly(IF Len(t) >= 2 /\ t[2] = NL THEN SubSeq(t, 3, Len(t))
                                 ELSE Tail(t))
    ELSE <<t[1]>> \o LineFeedsOnly(Tail(t))

\* The text a handler read: the files' contents joined, or the one content.
WhatWasRead ==
    IF hPath = "multiple" THEN Combined(<< >>, hText) ELSE Concatenated(hText)

CorpusIsNormalized ==
    /\ NoCarriageReturn(logContent)
    /\ logContent = LineFeedsOnly(WhatWasRead)
    /\ Normalized(logContent) = logContent

\* C28: whatever path produced it, the corpus has no carriage return, every
\* \r\n and every lone \r of what was read having become one \n, and
\* normalizing the corpus again changes nothing.
C28_CorpusHasNoCarriageReturn == hPath # "none" => CorpusIsNormalized

\* The same for the paths of part_000 and the textarea.
NormalizingPathsLeaveNoCarriageReturn ==
    hPath \notin {"none", "LogSearchTool.tsx"} => CorpusIsNormalized

\* ------------------------------------------------------------------------
\* Properties of the pattern collection
\* ------------------------------------------------------------------------

\* C30: after any sequence of addPattern, removePattern, togglePattern and
\* addPatternToGroup calls, the patterns of the collection, and those of the
\* groups, have pairwise distinct ids, also when two patterns are added within
\* the same clock tick.
C30_PatternIdsAreDistinct ==
    DistinctIds(uiPatterns) /\ DistinctIds(GroupedPatterns(patternGroups))

\* Two patterns with the same id were made within the same clock tick, and
\* removing or toggling gives no pattern a new id.
SameIdOnlyFromSameTick ==
    [][/\ \A k \in 1..Len(uiPatterns') :
             \/ \E j \in 1..Len(uiPatterns) : uiPatterns[j].id = uiPatterns'[k].id
             \/ uiPatterns'[k].id = now
       /\ \A k \in 1..Len(GroupedPatterns(patternGroups')) :
             \/ \E j \in 1..Len(GroupedPatterns(patternGroups)) :
                    GroupedPatterns(patternGroups)[j].id
                        = GroupedPatterns(patternGroups')[k].id
             \/ GroupedPatterns(patternGroups')[k].id = now]_vars

\* ------------------------------------------------------------------------
\* Further properties of the search controller
\* ------------------------------------------------------------------------

\* The step is a triggerSearch call without force made while search is
\* disabled.
DisabledCallStep ==
    lastCall'.no = lastCall.no + 1 /\ ~cState.isSearchEnabled /\ ~lastCall'.force

\* C31: when search is disabled and the call is not forced, triggerSearch
\* changes nothing: the search state (results, progress, isSearching), the
\* runs, the pending debounce timer and the controller state are as they were,
\* no search is scheduled and the call returns undefined.
C31_DisabledTriggerIsNoOp ==
    [][DisabledCallStep =>
          /\ sState' = sState
          /\ runs' = runs
          /\ searchCancelRef' = searchCancelRef
          /\ debounceTimer' = debounceTimer
          /\ cState' = cState
          /\ fired' = fired
          /\ lastCall'.returned = "undefined"]_vars

\* A call that would have scheduled a search was made while search was
\* disabled, a timeout armed earlier still pending.
C31_Witness ==
    /\ lastCall.no > 0
    /\ ~cState.isSearchEnabled
    /\ ~lastCall.force
    /\ lastCall.returned = "undefined"
    /\ lastCall.enabledPatterns > 0
    /\ Trim(lastCall.content) # EmptyText
    /\ debounceTimer.pending

\* ------------------------------------------------------------------------
\* Further properties of the content store
\* ------------------------------------------------------------------------

\* C32: after setContent(text) the display content respects both limits, at
\* most maxLines lines and at most the size limit, and whenever truncated is
\* true the display content is strictly shorter than the full text.
C32_DisplayRespectsBothLimits ==
    cmLast = "setContent" =>
        /\ CountLines(cmState.content) <= maxLines
        /\ BlobSize(cmState.content) <= MAX_SIZE_BYTES
        /\ cmState.truncated => Len(cmState.content) < Len(fullContentRef)

\* The line limit alone: the display content has at most maxLines lines, and
\* a text of more lines than that is shown strictly shorter and truncated.
DisplayRespectsLineLimit ==
    cmLast = "setContent" =>
        /\ CountLines(cmState.content) <= maxLines
        /\ CountLines(fullContentRef) > maxLines =>
              cmState.truncated /\ Len(cmState.content) < Len(fullContentRef)

\* ------------------------------------------------------------------------
\* Properties of the large-file paths
\* ------------------------------------------------------------------------

\* The chunks are contiguous, do not overlap, come in order and cover the
\* file: joined they are the file, and each but the last has the chunk size.
ChunksCover(chunks, file) ==
    /\ Concatenated(chunks) = file
    /\ \A k \in 1..Len(chunks) :
          /\ Len(chunks[k]) > 0
          /\ k < Len(chunks) => Len(chunks[k]) = CHUNK_BYTES

\* The final text is the one reading the file in one piece gives.
SameTextAsInOnePiece ==
    /\ hPath = "handleLargeFileUpload" => logContent = Normalized(Utf8Decode(hText[1]))
    /\ hPath = "uploadLargeFile" => pOut.content = Utf8Decode(hText[1])

\* C33: the chunk-and-split path yields the same final text as reading the
\* file in one piece: the byte chunks are contiguous, non-overlapping, in order
\* and cover the whole file, and the per-chunk decoded texts joined are the
\* decoding of the whole file.
C33_SplitPathKeepsTheText ==
    hPath # "none" =>
        /\ ChunksCover(splitFileIntoChunks(hText[1], CHUNK_BYTES, 0), hText[1])
        /\ ChunksCover(UploadChunkList(hText[1], CHUNK_BYTES), hText[1])
        /\ SameTextAsInOnePiece

\* The chunks do cover the file, and the text is the same when no character's
\* bytes lie on both sides of a chunk boundary.
SplitKeepsTheTextOfWholeCharacters ==
    hPath # "none" =>
        /\ ChunksCover(splitFileIntoChunks(hText[1], CHUNK_BYTES, 0), hText[1])
        /\ ChunksCover(UploadChunkList(hText[1], CHUNK_BYTES), hText[1])
        /\ (\A k \in 1..Len(hText[1]) :
                hText[1][k] = LEAD /\ k < Len(hText[1]) /\ hText[1][k + 1] = CONTINUATION
                    => k % CHUNK_BYTES # 0)
            => SameTextAsInOnePiece

\* ------------------------------------------------------------------------
\* Properties of the logical groups under editing
\* ------------------------------------------------------------------------

\* Every pattern id of every logical group is the id of a pattern.
GroupIdsExist ==
    \A g \in 1..Len(logicalGroups) :
        \A k \in 1..Len(logicalGroups[g].patterns) :
            FindPattern(uiPatterns, logicalGroups[g].patterns[k]) # << >>

\* No group that is evaluated resolves to no pattern.
NoEmptyResolvedGroup ==
    \A g \in 1..Len(FilterGroups(logicalGroups)) :
        ResolvePatterns(FilterGroups(logicalGroups)[g].patterns, uiPatterns) # << >>

\* Every included line has a match span.
IncludedLinesHaveSpans ==
    \A r \in 1..Len(LogicalResults.results) : Len(LogicalResults.results[r].matches) > 0

\* C34: after any sequence of addPattern, removePattern, addPatternToGroup and
\* removePatternFromGroup every pattern id in a logical group refers to an
\* existing pattern, so no enabled group is evaluated over an empty resolved
\* set and every included line of the grouped mode has at least one match span.
C34_GroupIdsReferToPatterns ==
    GroupIdsExist /\ NoEmptyResolvedGroup /\ IncludedLinesHaveSpans

\* Every operation but removePattern keeps the ids of the groups referring to
\* patterns, and while they do the evaluated groups resolve to patterns and
\* the included lines have spans.
GroupIdsExistButForRemovePattern ==
    [][/\ GroupIdsExist /\ Len(uiPatterns') >= Len(uiPatterns) => GroupIdsExist'
       /\ GroupIdsExist => NoEmptyResolvedGroup /\ IncludedLinesHaveSpans]_vars

\* ------------------------------------------------------------------------
\* Properties of disabled patterns
\* ------------------------------------------------------------------------

\* The collection with every disabled pattern's text replaced by a literal
\* that occurs in no line.
Muted(patterns) ==
    [k \in 1..Len(patterns) |->
        IF patterns[k].isEnabled THEN patterns[k]
        ELSE [patterns[k] EXCEPT !.pattern = <<"z">>, !.isRegex = FALSE]]

\* The pattern texts of the disabled patterns.
DisabledTexts(patterns) ==
    {patterns[k].pattern : k \in {j \in 1..Len(patterns) : ~patterns[j].isEnabled}}

\* C35: in every mode a disabled pattern contributes no span and does not
\* influence which lines are included; here the grouped mode: no span of a
\* result is of a disabled pattern, and the results are those of the same
\* collection with the disabled patterns matching nothing.
C35_DisabledPatternIsIgnored ==
    mOut.done /\ ~mOut.hang =>
        /\ \A r \in 1..Len(mOut.results) :
              \A j \in 1..Len(mOut.results[r].matches) :
                  mOut.results[r].matches[j].pattern \notin DisabledTexts(mPatterns)
        /\ mOut.results
              = searchResults(logContent, Muted(mPatterns), logicalGroups, globalOperator).results

\* In the simple mode and in the flat chain every span is of an enabled
\* pattern: the disabled ones are filtered out before the line is evaluated.
NoSpanOfDisabledPattern ==
    mOut.done /\ ~mOut.hang =>
        \A j \in 1..Len(mOut.result.matches) :
            mPatterns[mOut.result.matches[j].color].isEnabled

\* ------------------------------------------------------------------------
\* Properties of the disabled controller
\* ------------------------------------------------------------------------

\* A searchInChunks run starts in this step.
RunStarts == Len(runs') > Len(runs)

\* enableSearch(false) cancels the running search: its controller is aborted
\* and the reference to it dropped.
DisableCancels ==
    cState.isSearchEnabled /\ ~cState'.isSearchEnabled =>
        /\ searchCancelRef' = 0
        /\ \A r \in 1..Len(runs') : runs'[r].pc = "yield" => runs'[r].aborted

\* C36: after enableSearch(false) no scheduler run starts until search is
\* enabled again or a search is forced: the running search is cancelled, and a
\* debounce timer armed before the disable does not start a search.
C36_NoRunStartsWhileDisabled ==
    [][/\ DisableCancels
       /\ RunStarts /\ ~cState.isSearchEnabled => debounceTimer.call.force]_vars

\* The running search is cancelled by the disable, and no timer is armed while
\* search is disabled but by a forced call.
DisableCancelsAndArmsNoTimer ==
    [][/\ DisableCancels
       /\ ~cState.isSearchEnabled /\ debounceTimer'.pending /\ debounceTimer' # debounceTimer
             /\ debounceTimer'.remaining = DEBOUNCE_TICKS
          => debounceTimer'.call.force]_vars

\* ------------------------------------------------------------------------
\* Properties of the cleared search state
\* ------------------------------------------------------------------------

\* The search state as clearResults leaves it, no controller held.
Cleared == sState = InitialSearchState /\ searchCancelRef = 0

\* clearResults cancels a run in flight in this step.
ClearsInFlight ==
    \E r \in 1..Len(runs) :
        runs[r].cancelled # "clearResults" /\ runs'[r].cancelled = "clearResults"

\* C37: after clearResults() the search state is, and stays until the next
\* searchInChunks, isSearching = false, results empty, processedLines = 0,
\* totalLines = 0 and progress = 0, even if a run was in flight.
C37_ClearedStateStays ==
    [][/\ ClearsInFlight => Cleared'
       /\ Cleared /\ ~RunStarts => sState' = InitialSearchState]_vars

\* The cleared state is reached by clearResults, and until the next
\* searchInChunks nothing of it changes but progress.
ClearedStateStaysButForProgress ==
    [][/\ ClearsInFlight => Cleared'
       /\ Cleared /\ ~RunStarts
          => sState' = [InitialSearchState EXCEPT !.progress = sState'.progress]]_vars

\* ------------------------------------------------------------------------
\* Properties of updateMaxLines
\* ------------------------------------------------------------------------

\* The store after the step is as the new limit n wants it.
RederivedWith(n) ==
    /\ cmState'.maxLines = n
    /\ CountLines(cmState'.content) <= n
    /\ cmState'.truncated
          <=> CountLines(fullContentRef') > n \/ BlobSize(fullContentRef') > MAX_SIZE_BYTES

\* C38: after updateMaxLines(n) on a store that holds content the stored
\* maxLines is n and the display content is re-derived from the full text with
\* the new limit: at most n lines, and truncated exactly when the full text
\* exceeds the limit.
C38_UpdateMaxLinesRederives ==
    [][\A n \in 1..MaxLinesArg :
          fullContentRef # EmptyText /\ updateMaxLines(n) => RederivedWith(n)]_vars

\* updateMaxLines(n) on a store that holds content re-derives the display with
\* the limit the hook was constructed with, whatever n is; on an empty store it
\* stores n.
UpdateMaxLinesRederivesWithHookLimit ==
    [][\A n \in 1..MaxLinesArg :
          updateMaxLines(n) =>
              IF fullContentRef # EmptyText THEN RederivedWith(maxLines)
              ELSE cmState'.maxLines = n]_vars

\* ------------------------------------------------------------------------
\* Properties of the promises of processFiles
\* ------------------------------------------------------------------------

\* The promise of job j is there; its handleMessage listener is registered
\* from then until the promise settles.
Promised(j) == Len(promises) >= j

HasSettled(j) == Len(promises) >= j /\ promises[j] # "pending"

\* C39: every promise returned by processFiles eventually settles, provided
\* the worker keeps answering, also when the job is cancelled or superseded,
\* and with that its listener is removed.
C39_EveryPromiseSettles ==
    \A j \in 1..MaxJobs : Promised(j) ~> HasSettled(j)

\* With a caller that never cancels every promise settles, superseded or not.
UncancelledPromiseSettles ==
    \A j \in 1..MaxJobs : [](Promised(j) => <>HasSettled(j))

\* ------------------------------------------------------------------------
\* Properties of the stored pattern texts
\* ------------------------------------------------------------------------

\* The pattern has a text, and the literal matching loop over a line ends.
TextAdvancesTheLoop(p) ==
    /\ Len(p.pattern) > 0
    /\ ~p.isRegex => \A line \in {<< >>, <<"a">>, <<"a", "b">>} : ~FindMatches(line, p).hang

\* C40: every pattern stored by addPattern or addPatternToGroup has a
\* non-empty text, a blank input being rejected, so the literal matching loop
\* advances by at least one character at each match and terminates.
C40_StoredPatternsAreNotBlank ==
    /\ \A k \in 1..Len(uiPatterns) : TextAdvancesTheLoop(uiPatterns[k])
    /\ \A k \in 1..Len(GroupedPatterns(patternGroups)) :
          TextAdvancesTheLoop(GroupedPatterns(patternGroups)[k])

\* The patterns of the flat collection, stored by addPattern, are not blank.
AddPatternStoresNoBlank ==
    \A k \in 1..Len(uiPatterns) : TextAdvancesTheLoop(uiPatterns[k])

=========================================================================
